---- MODULE Spec2Model ----
(***************************************************************************)
(* parselglossy: validation of an input tree (the intermediate             *)
(* representation, IR) against a template: template check, views, merge    *)
(* with "ours" strategy, fixing of defaults, type check, predicates.        *)
(*                                                                          *)
(* Python values are tagged records, the tag being type(v).__name__:        *)
(*   [t |-> "NoneType"], [t |-> "int", n |-> 3], [t |-> "float", n |-> 3],  *)
(*   [t |-> "bool", b |-> TRUE], [t |-> "str", s |-> text],                 *)
(*   [t |-> "list", l |-> <<v1, v2>>],                                      *)
(*   [t |-> "dict", items |-> <<[k |-> key, v |-> value], ...>>]            *)
(* A dict keeps its keys in insertion order, as Python's dict does.         *)
(* The text of a str is a record saying what the characters spell:          *)
(*   [k |-> "plain", id |-> "B3LYP"]       a word without the token user    *)
(*   [k |-> "repr", of |-> v]              str(v) of a value that is no str *)
(*   [k |-> "expr", op |-> o, refs |-> <<addr, ...>>]                       *)
(*        "user['a']['b']" (op "ref"), "user[..] + user[..]" (op "add"),    *)
(*        "user[..] / user[..]" (op "div")                                  *)
(*   [k |-> "bare"]                        "username": holds the token      *)
(*                                         user, indexes nothing            *)
(*   [k |-> "broken", refs |-> <<addr>>]   "user['a'" + "]]": no valid      *)
(*                                         Python                           *)
(*   [k |-> "cat", a |-> text, b |-> text] the concatenation of two texts   *)
(* A float carries the integral part of its value in n.                     *)
(***************************************************************************)
EXTENDS Integers, Sequences, FiniteSets, TLC

VARIABLES
    pc,        \* where validate stands
    template,  \* the argument template
    ir,        \* the argument ir
    ordered,   \* template_ok, what is_template_valid returned
    views,     \* stencil, types and predicates
    built,     \* the tree the last plumbing call built (its outgoing)
    errors,    \* the errors the last plumbing call recorded
    fr,        \* the local fr of validate
    raised,    \* the exception that left validate, "" for none
    report,    \* what the ParselglossyError that left validate says
    ran,       \* the phases started so far, in order
    call,      \* a function called on its own, with its arguments
    returned,  \* what that call returned or raised
    given      \* the tree the last plumbing call was handed, as the call
               \* left it

vars ==
    <<pc, template, ir, ordered, views, built, errors, fr, raised, report, ran,
      call, returned, given>>

(***************************************************************************)
(* Values                                                                   *)
(***************************************************************************)
None == [t |-> "NoneType"]

PyInt(i) == [t |-> "int", n |-> i]

PyFloat(i) == [t |-> "float", n |-> i]

PyBool(b) == [t |-> "bool", b |-> b]

PyStr(text) == [t |-> "str", s |-> text]

Plain(id) == PyStr([k |-> "plain", id |-> id])

PyList(l) == [t |-> "list", l |-> l]

PyDict(items) == [t |-> "dict", items |-> items]

EmptyDict == PyDict(<<>>)

Expr(op, refs) == PyStr([k |-> "expr", op |-> op, refs |-> refs])

Ref(addr) == Expr("ref", <<addr>>)

\* A key the template may leave out (what not in v).
Absent == [t |-> "<absent>"]

isinstance_dict(v) == v.t = "dict"

RECURSIVE SeqToSet(_)
SeqToSet(s) == IF s = <<>> THEN {} ELSE {Head(s)} \cup SeqToSet(Tail(s))

keys(d) == [i \in 1..Len(d.items) |-> d.items[i].k]

KeySet(d) == {d.items[i].k : i \in 1..Len(d.items)}

Has(d, k) == k \in KeySet(d)

\* d[k] for a key the dict holds
Get(d, k) == d.items[CHOOSE i \in 1..Len(d.items) : d.items[i].k = k].v

\* d[k] = v: a known key keeps its place, a new key goes last
DictSet(d, k, v) ==
    IF Has(d, k)
    THEN PyDict([i \in 1..Len(d.items) |->
                  IF d.items[i].k = k THEN [k |-> k, v |-> v] ELSE d.items[i]])
    ELSE PyDict(Append(d.items, [k |-> k, v |-> v]))

\* "user" in text
RECURSIVE HasUser(_)
HasUser(text) ==
    CASE text.k \in {"expr", "bare", "broken"} -> TRUE
      [] text.k = "cat" -> HasUser(text.a) \/ HasUser(text.b)
      [] OTHER -> FALSE

RECURSIVE Flatten(_)
Flatten(ss) == IF ss = <<>> THEN <<>> ELSE Head(ss) \o Flatten(Tail(ss))

\* re.findall(r'\[[\'"](.*?)[\'"]\]', text): every quoted index of the text,
\* in the order of the text, whichever reference it belongs to
RECURSIVE findall_keys(_)
findall_keys(text) ==
    CASE text.k \in {"expr", "broken"} -> Flatten(text.refs)
      [] text.k = "cat" -> findall_keys(text.a) \o findall_keys(text.b)
      [] OTHER -> <<>>

Error(address, message) == [address |-> address, message |-> message]

(***************************************************************************)
(* Type registry                                                            *)
(***************************************************************************)
allowed_scalar_types == {"str", "int", "float", "complex", "bool"}

\* "List[T]" is written as the record-free string "List[" \o T \o "]"; TLC
\* has no string concatenation, so the ten names are listed.
ListOf(T) ==
    CASE T = "str" -> "List[str]"
      [] T = "int" -> "List[int]"
      [] T = "float" -> "List[float]"
      [] T = "complex" -> "List[complex]"
      [] T = "bool" -> "List[bool]"

allowed_list_types == {ListOf(T) : T \in allowed_scalar_types}

allowed_types == allowed_scalar_types \cup allowed_list_types

\* re.search(r"^List\[(\w+)\]$", expected_type).group(1)
ElementType(expected_type) ==
    CHOOSE T \in allowed_scalar_types : ListOf(T) = expected_type

\* A check with isinstance: a bool is an int
type_check_scalar_isinstance(value, expected_type) ==
    value.t = expected_type \/ (value.t = "bool" /\ expected_type = "int")

type_check_scalar(value, expected_type) == value.t = expected_type

type_check_list(value, expected_type) ==
    IF value.t = "list"
    THEN \A i \in 1..Len(value.l) : type_check_scalar(value.l[i], expected_type)
    ELSE FALSE

Ok(v) == [ok |-> TRUE, v |-> v]

Raise(exc) == [ok |-> FALSE, exc |-> exc]

\* Ok(TRUE or FALSE), or ValueError for a type that is not allowed
type_matches(value, expected_type) ==
    IF expected_type \notin allowed_types THEN Raise("ValueError")
    ELSE IF expected_type \in allowed_list_types
         THEN Ok(type_check_list(value, ElementType(expected_type)))
         ELSE Ok(type_check_scalar(value, expected_type))

IsNumber(v) == v.t \in {"int", "float", "bool"}

NumberOf(v) == IF v.t = "bool" THEN (IF v.b THEN 1 ELSE 0) ELSE v.n

\* bool(x): the truth value of x, which never raises
py_bool(x) ==
    Ok(PyBool(CASE x.t = "NoneType" -> FALSE
                [] x.t = "bool" -> x.b
                [] x.t \in {"int", "float"} -> x.n # 0
                [] x.t = "complex" -> x.re # 0 \/ x.im # 0
                [] x.t = "str" -> ~(x.s.k = "plain" /\ x.s.id = "")
                [] x.t = "list" -> x.l # <<>>
                [] x.t = "dict" -> x.items # <<>>))

\* str(x), which never raises
py_str(x) == IF x.t = "str" THEN Ok(x) ELSE Ok(PyStr([k |-> "repr", of |-> x]))

\* int(x): a number is truncated, a str is parsed, anything else is no number
py_int(x) ==
    CASE IsNumber(x) -> Ok(PyInt(NumberOf(x)))
      [] x.t = "str" ->
            IF x.s.k = "repr" /\ x.s.of.t = "int"
            THEN Ok(PyInt(x.s.of.n)) ELSE Raise("ValueError")
      [] OTHER -> Raise("TypeError")

py_float(x) ==
    CASE IsNumber(x) -> Ok(PyFloat(NumberOf(x)))
      [] x.t = "str" ->
            IF x.s.k = "repr" /\ x.s.of.t \in {"int", "float"}
            THEN Ok(PyFloat(x.s.of.n)) ELSE Raise("ValueError")
      [] OTHER -> Raise("TypeError")

PyComplex(re, im) == [t |-> "complex", re |-> re, im |-> im]

py_complex(x) ==
    CASE IsNumber(x) -> Ok(PyComplex(NumberOf(x), 0))
      [] x.t = "complex" -> Ok(x)
      [] x.t = "str" ->
            IF x.s.k = "repr" /\ x.s.of.t \in {"int", "float"}
            THEN Ok(PyComplex(x.s.of.n, 0))
            ELSE IF x.s.k = "repr" /\ x.s.of.t = "complex"
                 THEN Ok(x.s.of) ELSE Raise("ValueError")
      [] OTHER -> Raise("TypeError")

\* The constructor of a scalar type name
Constructor(T, x) ==
    CASE T = "bool" -> py_bool(x)
      [] T = "complex" -> py_complex(x)
      [] T = "float" -> py_float(x)
      [] T = "int" -> py_int(x)
      [] T = "str" -> py_str(x)

\* iter(x): the elements a map() over x visits
Iterate(x) ==
    CASE x.t = "list" -> Ok(x.l)
      [] x.t = "dict" -> Ok([i \in 1..Len(x.items) |-> Plain(x.items[i].k)])
      [] x.t = "str" -> Ok(<<[t |-> "str", s |-> [k |-> "chars", of |-> x.s]]>>)
      [] OTHER -> Raise("TypeError")

\* list() of the results of a map(): the first failure leaves the map
Listed(rs) ==
    IF \E i \in 1..Len(rs) : ~rs[i].ok
    THEN Raise(rs[CHOOSE i \in 1..Len(rs) :
                      ~rs[i].ok /\ \A j \in 1..(i - 1) : rs[j].ok].exc)
    ELSE Ok(PyList([i \in 1..Len(rs) |-> rs[i].v]))

\* list(map(f, x)) for the constructor f of T
MapConstructor(T, x) ==
    LET it == Iterate(x) IN
    IF ~it.ok THEN it
    ELSE Listed([i \in 1..Len(it.v) |-> Constructor(T, it.v[i])])

\* The v every lambda of tmp sees when it is called: the comprehension's
\* variable after its last round, the last key of type_fixers
LastFixerType == "str"

\* type_fixers[t](x)
type_fixers(t, x) ==
    IF t \in allowed_scalar_types THEN Constructor(t, x)
    ELSE MapConstructor(LastFixerType, x)

(***************************************************************************)
(* Template and views                                                       *)
(* A keyword is [name, type, docstring, default, predicates, sections]:     *)
(* type and docstring are strings, NoKey when the key is left out; default  *)
(* and predicates are values, Absent when the key is left out; sections     *)
(* says whether the keyword has a "sections" key.  A section (and the root) *)
(* is [name, docstring, hasKeywords, keywords, sections].                   *)
(***************************************************************************)
NoKey == "<absent>"

Keyword(name, type, docstring, default, predicates) ==
    [name |-> name, type |-> type, docstring |-> docstring,
     default |-> default, predicates |-> predicates, sections |-> FALSE]

Section(name, docstring, keywords, sections) ==
    [name |-> name, docstring |-> docstring, hasKeywords |-> TRUE,
     keywords |-> keywords, sections |-> sections]

\* x[what] as a value, Absent when what not in x
Attribute(x, what) ==
    CASE what = "type" -> IF x.type = NoKey THEN Absent ELSE Plain(x.type)
      [] what = "docstring" ->
            IF x.docstring = NoKey THEN Absent ELSE Plain(x.docstring)
      [] what = "default" -> x.default
      [] what = "predicates" -> x.predicates

\* The class SpecificationError, which two views put where a key is missing
SpecificationError == [t |-> "type", name |-> "SpecificationError"]

\* x["docstring"].strip() = ""
Blank(docstring) == docstring \in {"", " "}

\* x.rstrip() of the docstrings the templates hold
docstring_rstrip(docstring) ==
    CASE docstring = "doc " -> "doc"
      [] docstring = " " -> ""
      [] OTHER -> docstring

\* transformer(v[what]): the identity, but for the view by docstring
Transformed(a, mode) ==
    IF mode = "docstring" THEN Plain(docstring_rstrip(a.s.id)) ELSE a

possible_views == {"type", "default", "docstring", "predicates"}

\* The keywords of a node, one entry per name: a later keyword of the same
\* name overwrites the value of the earlier one.  mode "docstring" is the
\* view with predicate docstring_not_empty and transformer docstring_rstrip.
RECURSIVE KeywordsView(_, _, _, _, _)
KeywordsView(what, kws, missing, mode, view) ==
    IF kws = <<>> THEN Ok(view)
    ELSE LET v == Head(kws)
             a == Attribute(v, what)
         IN  IF mode = "docstring" /\ a = Absent THEN Raise("KeyError")
             ELSE LET holds == IF mode = "docstring" THEN ~Blank(v.docstring)
                                                      ELSE TRUE
                      entry == IF a # Absent /\ holds THEN Transformed(a, mode)
                                                      ELSE missing
                  IN  KeywordsView(what, Tail(kws), missing, mode,
                                   DictSet(view, v.name, entry))

RECURSIVE view_by(_, _, _, _), SectionsView(_, _, _, _, _)
view_by(what, d, missing, mode) ==
    IF what \notin possible_views THEN Raise("ValueError")
    ELSE IF ~d.hasKeywords THEN Raise("KeyError")
    ELSE LET kv == KeywordsView(what, d.keywords, missing, mode, EmptyDict) IN
         IF ~kv.ok THEN kv
         ELSE SectionsView(what, d.sections, missing, mode, kv.v)

SectionsView(what, sections, missing, mode, view) ==
    IF sections = <<>> THEN Ok(view)
    ELSE LET sub == view_by(what, Head(sections), missing, mode) IN
         IF ~sub.ok THEN sub
         ELSE SectionsView(what, Tail(sections), missing, mode,
                           DictSet(view, Head(sections).name, sub.v))

view_by_type(d) == view_by("type", d, SpecificationError, "plain")

view_by_default(d) == view_by("default", d, None, "plain")

view_by_docstring(d) == view_by("docstring", d, SpecificationError, "docstring")

view_by_predicates(d) == view_by("predicates", d, None, "plain")

\* The view by default of a list of keywords, without their sections
view_by_default_keywords(keywords) ==
    KeywordsView("default", keywords, None, "plain", EmptyDict).v

(***************************************************************************)
(* Merge with "ours" strategy                                               *)
(***************************************************************************)
Unexpected(what, k) == [m |-> "Found unexpected", what |-> what, key |-> k]

Required(k) == [m |-> "is required but has no value", key |-> k]

\* Every unknown key reported as a keyword, whatever its value
UnexpectedKeywords(theirs, ours) ==
    LET difference == SelectSeq(keys(ours), LAMBDA k : ~Has(theirs, k)) IN
    [i \in 1..Len(difference) |->
        Error(<<>>, Unexpected("keyword", difference[i]))]

\* set(ours.keys()).difference(set(theirs.keys())), one error for each key;
\* the set is walked here in the order ours holds the keys
UnexpectedErrors(theirs, ours) ==
    LET difference == SelectSeq(keys(ours), LAMBDA k : ~Has(theirs, k)) IN
    [i \in 1..Len(difference) |->
        Error(<<>>, Unexpected(IF isinstance_dict(Get(ours, difference[i]))
                               THEN "section" ELSE "keyword", difference[i]))]

Merged(outgoing, errs) == Ok([outgoing |-> outgoing, errors |-> errs])

\* k not in ours.keys()
MissingKey(theirs, k, address) ==
    IF Get(theirs, k) # None
    THEN Merged(Get(theirs, k), <<>>)
    ELSE Merged(None, <<Error(address \o <<k>>, Required(k))>>)

\* A keyword of ours without a value reported as required
PresentKeywordRequired(ours, k) ==
    IF Get(ours, k) = None
    THEN [ok |-> TRUE,
          v |-> [outgoing |-> None, errors |-> <<Error(<<k>>, Required(k))>>]]
    ELSE [ok |-> TRUE, v |-> [outgoing |-> Get(ours, k), errors |-> <<>>]]

\* k in ours.keys() and theirs[k] is no dict
PresentKeyword(ours, k) == Merged(Get(ours, k), <<>>)

RECURSIVE rec_merge_ours(_, _, _), MergeItems(_, _, _, _, _, _)

\* A merge where a default that is there wins over the value of ours
MergeKeyTheirs(theirs, ours, address, k, v) ==
    IF ~Has(ours, k) \/ (~isinstance_dict(v) /\ v # None)
    THEN MissingKey(theirs, k, address)
    ELSE IF ~isinstance_dict(v) THEN PresentKeyword(ours, k)
    ELSE rec_merge_ours(v, Get(ours, k), address \o <<k>>)

\* One round of "for k, v in theirs.items()"
MergeKey(theirs, ours, address, k, v) ==
    IF ~Has(ours, k) THEN MissingKey(theirs, k, address)
    ELSE IF ~isinstance_dict(v) THEN PresentKeyword(ours, k)
    ELSE rec_merge_ours(v, Get(ours, k), address \o <<k>>)

MergeItems(theirs, ours, address, i, outgoing, errs) ==
    IF i > Len(theirs.items) THEN Merged(outgoing, errs)
    ELSE LET k == theirs.items[i].k
             r == MergeKey(theirs, ours, address, k, theirs.items[i].v)
         IN  IF ~r.ok THEN r
             ELSE MergeItems(theirs, ours, address, i + 1,
                             DictSet(outgoing, k, r.v.outgoing),
                             errs \o r.v.errors)

\* ours.keys() of a value that is no dict raises AttributeError
rec_merge_ours(theirs, ours, address) ==
    IF ~isinstance_dict(ours) THEN Raise("AttributeError")
    ELSE MergeItems(theirs, ours, address, 1, EmptyDict,
                    UnexpectedErrors(theirs, ours))

(***************************************************************************)
(* Evaluation of a callable: eval(f"lambda user: {f}")(d)                   *)
(***************************************************************************)
RaiseKey(k) == [ok |-> FALSE, exc |-> "KeyError", key |-> k]

\* user[k1][k2]...
RECURSIVE Lookup(_, _)
Lookup(d, addr) ==
    IF addr = <<>> THEN Ok(d)
    ELSE IF d.t # "dict" THEN Raise("TypeError")
    ELSE IF ~Has(d, Head(addr)) THEN RaiseKey(Head(addr))
    ELSE Lookup(Get(d, Head(addr)), Tail(addr))

Add(a, b) ==
    CASE IsNumber(a) /\ IsNumber(b) ->
            IF "float" \in {a.t, b.t}
            THEN Ok(PyFloat(NumberOf(a) + NumberOf(b)))
            ELSE Ok(PyInt(NumberOf(a) + NumberOf(b)))
      [] a.t = "str" /\ b.t = "str" ->
            Ok(PyStr([k |-> "cat", a |-> a.s, b |-> b.s]))
      [] a.t = "list" /\ b.t = "list" -> Ok(PyList(a.l \o b.l))
      [] OTHER -> Raise("TypeError")

Div(a, b) ==
    IF IsNumber(a) /\ IsNumber(b)
    THEN IF NumberOf(b) = 0 THEN Raise("ZeroDivisionError")
         ELSE Ok(PyFloat(NumberOf(a) \div NumberOf(b)))
    ELSE Raise("TypeError")

Eval(text, d) ==
    CASE text.k = "expr" ->
            LET x == Lookup(d, text.refs[1]) IN
            IF ~x.ok \/ text.op = "ref" THEN x
            ELSE LET y == Lookup(d, text.refs[2]) IN
                 IF ~y.ok THEN y
                 ELSE IF text.op = "add" THEN Add(x.v, y.v)
                                         ELSE Div(x.v, y.v)
      [] text.k \in {"bare", "plain"} -> Raise("NameError")
      [] OTHER -> Raise("SyntaxError")

\* The exceptions run_callable and run_predicate catch
Caught == {"KeyError", "SyntaxError", "TypeError", "NameError"}

InClosure(r, f) ==
    [m |-> "in closure", exc |-> r.exc,
     key |-> IF r.exc = "KeyError" THEN r.key ELSE "", closure |-> f]

\* msg = ""
NoMsg == [m |-> ""]

\* A run_callable without its "except KeyError"
ExceptNoKeyError(fixed, f) ==
    IF fixed.ok THEN Ok([msg |-> NoMsg, result |-> fixed.v])
    ELSE IF fixed.exc \in Caught \ {"KeyError"}
         THEN Ok([msg |-> InClosure(fixed, f), result |-> None])
         ELSE fixed

\* "except (KeyError, SyntaxError, TypeError, NameError)": msg tells of the
\* exception and result is None; any other exception leaves run_callable
Except(fixed, f) ==
    IF fixed.ok THEN Ok([msg |-> NoMsg, result |-> fixed.v])
    ELSE IF fixed.exc \in Caught
         THEN Ok([msg |-> InClosure(fixed, f), result |-> None])
         ELSE fixed

\* A run_callable that hands on what eval gave
FixResultRaw(result, t) == result

\* result = type_fixers[t](result), inside the try
FixResult(result, t) ==
    IF result.ok THEN type_fixers(t, result.v) ELSE result

\* Ok([msg, result]); an exception that is not caught leaves run_callable
run_callable(f, d, t) == Except(FixResult(Eval(f.s, d), t), f)

(***************************************************************************)
(* Fixing of defaults and type checking                                     *)
(***************************************************************************)
\* nested_set(d, address, value): d[a1][a2]...[an] = value
RECURSIVE nested_set(_, _, _)
nested_set(d, address, value) ==
    IF Len(address) = 1 THEN DictSet(d, Head(address), value)
    ELSE DictSet(d, Head(address),
                 nested_set(IF Has(d, Head(address))
                            THEN Get(d, Head(address)) ELSE EmptyDict,
                            Tail(address), value))

\* type(v).__name__, or List[...] of the names of the elements
ActualType(v) ==
    IF v.t # "list" THEN [name |-> v.t, of |-> <<>>]
    ELSE [name |-> "List", of |-> [i \in 1..Len(v.l) |-> v.l[i].t]]

TypesDoNotMatch(v, t) ==
    [m |-> "types do not match.", actual |-> ActualType(v), declared |-> t]

\* types[k]: a view is a dict of type names; anything else (the name of a
\* type, the class SpecificationError) cannot be indexed by a key
Index(types, k) ==
    IF types.t # "dict" THEN Raise("TypeError")
    ELSE IF ~Has(types, k) THEN RaiseKey(k)
    ELSE Ok(Get(types, k))

\* The name a leaf of the view by type holds
TypeName(leaf) == IF leaf.t = "str" THEN leaf.s.id ELSE NoKey

\* outgoing[k] = type_fixers[t](v)
Assigned(r) ==
    IF r.ok THEN Ok([msg |-> NoMsg, set |-> TRUE, result |-> r.v]) ELSE r

\* msg, outgoing[k] = run_callable(v, start_dict, t)
Called(r) ==
    IF r.ok THEN Ok([msg |-> r.v.msg, set |-> TRUE, result |-> r.v.result])
    ELSE r

\* The branch of a value that is no dict: Ok([msg, set, result]), set saying
\* whether outgoing[k] is assigned
FixKeyword(v, t, start_dict) ==
    LET types_ok == type_matches(v, t) IN
    IF ~types_ok.ok THEN types_ok
    ELSE IF types_ok.v THEN Assigned(type_fixers(t, v))
    ELSE IF v.t = "str" /\ HasUser(v.s)
    THEN Called(run_callable(v, start_dict, t))
    ELSE Ok([msg |-> TypesDoNotMatch(v, t), set |-> FALSE, result |-> None])

Fixed(outgoing, errs, start_dict) ==
    Ok([outgoing |-> outgoing, errors |-> errs, start_dict |-> start_dict])

RECURSIVE rec_fix_defaults(_, _, _, _), FixItems(_, _, _, _, _, _, _)
RECURSIVE FixedKeyword(_, _, _, _, _, _, _, _), FixedSection(_, _, _, _, _, _, _)

\* "for k, v in incoming.items()" from the i-th item on; start_dict is the
\* one object every level of the recursion writes to
FixItems(incoming, types, start_dict, address, i, outgoing, errs) ==
    IF i > Len(incoming.items) THEN Fixed(outgoing, errs, start_dict)
    ELSE LET k == incoming.items[i].k
             v == incoming.items[i].v
             t == Index(types, k)
         IN  IF ~t.ok THEN t
             ELSE IF ~isinstance_dict(v)
             THEN FixedKeyword(FixKeyword(v, TypeName(t.v), start_dict),
                               incoming, types, start_dict, address, i,
                               outgoing, errs)
             ELSE FixedSection(rec_fix_defaults(v, t.v, start_dict,
                                                address \o <<k>>),
                               incoming, types, address, i, outgoing, errs)

\* A loop over the keywords that returns at the first msg
FixedKeywordStops(r, incoming, types, start_dict, address, i, outgoing, errs) ==
    LET k == incoming.items[i].k IN
    IF ~r.ok THEN r
    ELSE IF r.v.msg # NoMsg
    THEN Fixed(outgoing, Append(errs, Error(address \o <<k>>, r.v.msg)),
               start_dict)
    ELSE FixItems(incoming, types,
                  nested_set(start_dict, address \o <<k>>, r.v.result),
                  address, i + 1, DictSet(outgoing, k, r.v.result), errs)

\* A loop that never writes a fixed value into start_dict
FixedKeywordNoWrite(r, incoming, types, start_dict, address, i, outgoing, errs) ==
    LET k == incoming.items[i].k IN
    IF ~r.ok THEN r
    ELSE IF r.v.msg # NoMsg
    THEN FixItems(incoming, types, start_dict, address, i + 1,
                  IF r.v.set THEN DictSet(outgoing, k, r.v.result)
                             ELSE outgoing,
                  Append(errs, Error(address \o <<k>>, r.v.msg)))
    ELSE FixItems(incoming, types, start_dict, address, i + 1,
                  DictSet(outgoing, k, r.v.result), errs)

\* After the branch of a keyword: with a msg the error is appended, without
\* one the fixed value is written into start_dict
FixedKeyword(r, incoming, types, start_dict, address, i, outgoing, errs) ==
    LET k == incoming.items[i].k IN
    IF ~r.ok THEN r
    ELSE IF r.v.msg # NoMsg
    THEN FixItems(incoming, types, start_dict, address, i + 1,
                  IF r.v.set THEN DictSet(outgoing, k, r.v.result)
                             ELSE outgoing,
                  Append(errs, Error(address \o <<k>>, r.v.msg)))
    ELSE FixItems(incoming, types,
                  nested_set(start_dict, address \o <<k>>, r.v.result),
                  address, i + 1, DictSet(outgoing, k, r.v.result), errs)

\* outgoing[k], errs = _rec_fix_defaults(...); errors.extend(errs)
FixedSection(r, incoming, types, address, i, outgoing, errs) ==
    IF ~r.ok THEN r
    ELSE FixItems(incoming, types, r.v.start_dict, address, i + 1,
                  DictSet(outgoing, incoming.items[i].k, r.v.outgoing),
                  errs \o r.v.errors)

rec_fix_defaults(incoming, types, start_dict, address) ==
    FixItems(incoming, types, start_dict, address, 1, EmptyDict, <<>>)

\* What the call at the root returns, and incoming as the call leaves it:
\* nested_set writes to start_dict, which is incoming only if it is shared
Handed(r, incoming, shared) ==
    IF ~r.ok THEN r
    ELSE Ok([outgoing |-> r.v.outgoing, errors |-> r.v.errors,
             start_dict |-> r.v.start_dict,
             incoming |-> IF shared THEN r.v.start_dict ELSE incoming])

\* A start dictionary that is the tree itself: start_dict = incoming
fix_defaults_shared(incoming, types) ==
    Handed(rec_fix_defaults(incoming, types, incoming, <<>>), incoming, TRUE)

\* "if start_dict is None: start_dict = deepcopy(incoming)", then the loop
fix_defaults_from(incoming, types) ==
    Handed(rec_fix_defaults(incoming, types, incoming, <<>>), incoming, FALSE)

(***************************************************************************)
(* typenade: the type check after the defaults are fixed                    *)
(***************************************************************************)
Typed(outgoing, errs) == Ok([outgoing |-> outgoing, errors |-> errs])

\* "Actual ({0}) and declared ({1}) types do not match" with the name of the
\* type of the value, of a list too
DoNotMatch(v, declared) ==
    [m |-> "types do not match", actual |-> [name |-> v.t, of |-> <<>>],
     declared |-> declared]

RECURSIVE rec_typenade(_, _, _, _), TypenadeItems(_, _, _, _, _, _, _)
RECURSIVE TypedItem(_, _, _, _, _, _, _, _)

TypenadeItems(incoming, types, fixate, address, i, outgoing, errs) ==
    IF i > Len(incoming.items) THEN Typed(outgoing, errs)
    ELSE LET k == incoming.items[i].k
             v == incoming.items[i].v
             t == Index(types, k)
         IN  IF ~t.ok THEN t
             ELSE IF isinstance_dict(v)
             THEN TypedItem(rec_typenade(v, t.v, fixate, address \o <<k>>),
                            incoming, types, fixate, address, i, outgoing, errs)
             ELSE LET declared == TypeName(t.v)
                      m == type_matches(v, declared)
                  IN  IF ~m.ok THEN m
                      ELSE IF m.v
                      THEN TypedItem(
                               Assigned(IF fixate THEN type_fixers(declared, v)
                                                  ELSE Ok(v)),
                               incoming, types, fixate, address, i, outgoing,
                               errs)
                      ELSE TypenadeItems(incoming, types, fixate, address, i + 1,
                                         DictSet(outgoing, k, None),
                                         Append(errs,
                                                Error(address \o <<k>>,
                                                      DoNotMatch(v, declared))))

\* outgoing[k] is the typed section with its errors, or the fixed value
TypedItem(r, incoming, types, fixate, address, i, outgoing, errs) ==
    IF ~r.ok THEN r
    ELSE IF isinstance_dict(incoming.items[i].v)
    THEN TypenadeItems(incoming, types, fixate, address, i + 1,
                       DictSet(outgoing, incoming.items[i].k, r.v.outgoing),
                       errs \o r.v.errors)
    ELSE TypenadeItems(incoming, types, fixate, address, i + 1,
                       DictSet(outgoing, incoming.items[i].k, r.v.result), errs)

rec_typenade(incoming, types, fixate, address) ==
    TypenadeItems(incoming, types, fixate, address, 1, EmptyDict, <<>>)

(***************************************************************************)
(* Predicates.  A predicate is a str whose text is                          *)
(*   [k |-> "pred", op |-> "lt", rhs |-> c]        "value < c"               *)
(*   [k |-> "pred", op |-> "ge", rhs |-> c]        "value >= c"              *)
(*   [k |-> "pred", op |-> "ltref", ref |-> addr]  "value < user['..']['..']" *)
(*   [k |-> "pred", op |-> "inv", rhs |-> c]       "c < 1 / value"           *)
(*   [k |-> "pred", op |-> "broken"]               "value <"                 *)
(*   [k |-> "pred", op |-> "name"]                 "value < undefined"       *)
(***************************************************************************)
Pred(op, rhs) == PyStr([k |-> "pred", op |-> op, rhs |-> rhs])

PredRef(addr) == PyStr([k |-> "pred", op |-> "ltref", ref |-> addr])

NotSatisfied(p) == [m |-> "not satisfied", predicate |-> p]

\* a < b of two values: numbers compare, two str compare (never needed
\* here), anything else is a TypeError
Less(a, b) ==
    IF IsNumber(a) /\ IsNumber(b) THEN Ok(NumberOf(a) < NumberOf(b))
    ELSE Raise("TypeError")

\* not (a < b), for a >= b
Negated(l) == IF l.ok THEN Ok(~l.v) ELSE l

\* value < other with both looked up in user
LessOf(value, other) ==
    IF ~value.ok THEN value
    ELSE IF ~other.ok THEN other
    ELSE Less(value.v, other.v)

\* 1 / value
Inverse(value) == IF ~value.ok THEN value ELSE Div(PyInt(1), value.v)

\* "value" in k, for the names of the templates
HoldsValue(k) == k \in {"max_value", "values"}

\* predicate.replace("value", where) replaces every "value" of the text, in
\* the keys of a reference too: user['max_value'] becomes
\* user['max_user['n']'], which is no Python
Spoiled(p) ==
    p.s.op = "ltref" /\ \E i \in DOMAIN p.s.ref : HoldsValue(p.s.ref[i])

\* eval of predicate.replace("value", where) with user bound to the tree;
\* where is location_in_dict(address), the reference to the keyword itself
EvalPredicate(p, address, user) ==
    CASE p.s.op = "lt" ->
            LessOf(Lookup(user, address), Ok(PyInt(p.s.rhs)))
      [] p.s.op = "ge" ->
            Negated(LessOf(Lookup(user, address), Ok(PyInt(p.s.rhs))))
      [] p.s.op = "ltref" ->
            IF Spoiled(p) THEN Raise("SyntaxError")
            ELSE LessOf(Lookup(user, address), Lookup(user, p.s.ref))
      [] p.s.op = "inv" ->
            LessOf(Ok(PyInt(p.s.rhs)), Inverse(Lookup(user, address)))
      [] p.s.op = "broken" -> Raise("SyntaxError")
      [] OTHER -> Raise("NameError")

\* "except (KeyError, SyntaxError, TypeError, NameError)" of run_predicate
ExceptPredicate(r, p) ==
    IF r.ok
    THEN Ok([msg |-> IF r.v THEN NoMsg ELSE NotSatisfied(p), success |-> r.v])
    ELSE IF r.exc \in Caught
         THEN Ok([msg |-> InClosure(r, p), success |-> FALSE])
         ELSE r

\* Ok([msg, success]); an exception that is not caught leaves run_predicate
run_predicate(p, address, user) ==
    ExceptPredicate(EvalPredicate(p, address, user), p)

RECURSIVE RunPredicates(_, _, _, _), RanPredicate(_, _, _, _, _)

\* "for p in predicates[k]"; a list of predicates is iterated, and so is
\* whatever else the template holds under the key predicates
RunPredicates(ps, address, user, errs) ==
    IF ps = <<>> THEN Ok(errs)
    ELSE RanPredicate(run_predicate(Head(ps), address, user), ps, address,
                      user, errs)

\* A loop over the predicates of a keyword that ends with the first failure
RanPredicateStops(r, ps, address, user, errs) ==
    IF ~r.ok THEN r
    ELSE IF r.v.success THEN RunPredicates(Tail(ps), address, user, errs)
    ELSE Ok(Append(errs, Error(address, r.v.msg)))

\* "if not success: errors.append(Error(address + (k,), msg))"
RanPredicate(r, ps, address, user, errs) ==
    IF ~r.ok THEN r
    ELSE RunPredicates(Tail(ps), address, user,
                       IF r.v.success THEN errs
                       ELSE Append(errs, Error(address, r.v.msg)))

\* The predicates of one keyword: whatever the view holds is iterated
KeywordPredicates(ps, address, user) ==
    IF ~ps.ok THEN ps ELSE RunPredicates(ps.v, address, user, <<>>)

RECURSIVE rec_check_predicates(_, _, _, _), PredicateItems(_, _, _, _, _, _)
RECURSIVE CheckedItem(_, _, _, _, _, _, _)

PredicateItems(incoming, predicates, start_dict, address, i, errs) ==
    IF i > Len(incoming.items) THEN Ok(errs)
    ELSE LET k == incoming.items[i].k
             v == incoming.items[i].v
             p == Index(predicates, k)
         IN  IF ~p.ok THEN p
             ELSE IF p.v = None
             THEN PredicateItems(incoming, predicates, start_dict, address,
                                 i + 1, errs)
             ELSE IF ~isinstance_dict(v)
             THEN CheckedItem(KeywordPredicates(Iterate(p.v), address \o <<k>>,
                                                start_dict),
                              incoming, predicates, start_dict, address, i, errs)
             ELSE CheckedItem(rec_check_predicates(v, p.v, start_dict,
                                                   address \o <<k>>),
                              incoming, predicates, start_dict, address, i, errs)

\* errors.extend(errs) of one item
CheckedItem(r, incoming, predicates, start_dict, address, i, errs) ==
    IF ~r.ok THEN r
    ELSE PredicateItems(incoming, predicates, start_dict, address, i + 1,
                        errs \o r.v)

rec_check_predicates(incoming, predicates, start_dict, address) ==
    PredicateItems(incoming, predicates, start_dict, address, 1, <<>>)

(***************************************************************************)
(* Template check                                                           *)
(***************************************************************************)
undocumented(x) == x.docstring = NoKey \/ Blank(x.docstring)

untyped(x) == x.type = NoKey \/ x.type \notin allowed_types

\* A check of a keyword that stops at its first violation
check_keyword_first(keyword, address) ==
    IF keyword.sections
    THEN <<Error(address \o <<keyword.name>>,
                 [m |-> "Sections cannot be nested under keywords."])>>
    ELSE IF untyped(keyword)
    THEN <<Error(address \o <<keyword.name>>,
                 [m |-> "Keywords must have a valid type."])>>
    ELSE IF undocumented(keyword)
    THEN <<Error(address \o <<keyword.name>>,
                 [m |-> "Keywords must have a non-empty docstring."])>>
    ELSE <<>>

check_keyword(keyword, address) ==
    LET k == keyword.name IN
    (IF keyword.sections
     THEN <<Error(address \o <<k>>, [m |-> "Sections cannot be nested under keywords."])>>
     ELSE <<>>)
    \o (IF untyped(keyword)
        THEN <<Error(address \o <<k>>, [m |-> "Keywords must have a valid type."])>>
        ELSE <<>>)
    \o (IF undocumented(keyword)
        THEN <<Error(address \o <<k>>, [m |-> "Keywords must have a non-empty docstring."])>>
        ELSE <<>>)

RECURSIVE rec_is_template_valid(_, _), CheckKeywords(_, _), CheckSections(_, _)

CheckKeywords(keywords, address) ==
    IF keywords = <<>> THEN <<>>
    ELSE check_keyword(Head(keywords), address)
         \o CheckKeywords(Tail(keywords), address)

CheckSections(sections, address) ==
    IF sections = <<>> THEN <<>>
    ELSE LET s == Head(sections) IN
         (IF undocumented(s)
          THEN <<Error(address \o <<s.name>>, [m |-> "Sections must have a non-empty docstring."])>>
          ELSE <<>>)
         \o rec_is_template_valid(s, address \o <<s.name>>)
         \o CheckSections(Tail(sections), address)

rec_is_template_valid(t, address) ==
    CheckKeywords(IF t.hasKeywords THEN t.keywords ELSE <<>>, address)
    \o CheckSections(t.sections, address)

\* One (keyword, default dependency) pair, or none: _to is every quoted
\* index of the default, whatever the number of fields the default names
keywords_default_dependencies(keyword, default, parent_sections) ==
    IF default.t = "str" /\ HasUser(default.s)
       /\ Len(findall_keys(default.s)) > 0
    THEN <<[from |-> parent_sections \o <<keyword>>,
            to |-> findall_keys(default.s)]>>
    ELSE <<>>

RECURSIVE sections_default_dependencies(_, _), DependenciesFrom(_, _, _)

DependenciesFrom(section, parent_sections, i) ==
    IF i > Len(section.items) THEN <<>>
    ELSE LET k == section.items[i].k
             v == section.items[i].v
         IN  (IF ~isinstance_dict(v)
              THEN keywords_default_dependencies(k, v, parent_sections)
              ELSE sections_default_dependencies(v, parent_sections \o <<k>>))
             \o DependenciesFrom(section, parent_sections, i + 1)

sections_default_dependencies(section, parent_sections) ==
    DependenciesFrom(section, parent_sections, 1)

\* The nodes of nx.DiGraph(edges) in the order the graph holds them: the
\* ends of each edge, as the edges come, a node once
RECURSIVE GraphNodes(_, _)
GraphNodes(edges, nodes) ==
    IF edges = <<>> THEN nodes
    ELSE LET e == Head(edges)
             n1 == IF e.from \in SeqToSet(nodes) THEN nodes
                   ELSE Append(nodes, e.from)
             n2 == IF e.to \in SeqToSet(n1) THEN n1 ELSE Append(n1, e.to)
         IN  GraphNodes(Tail(edges), n2)

Successors(edges, n) ==
    {edges[i].to : i \in {j \in 1..Len(edges) : edges[j].from = n}}

IndexOf(nodes, n) == CHOOSE i \in 1..Len(nodes) : nodes[i] = n

\* The elementary circuits through path[1] that continue path and visit,
\* besides path[1], only nodes the graph holds after it: each circuit of the
\* graph is found once, from its first node
RECURSIVE CircuitsFrom(_, _, _)
CircuitsFrom(edges, nodes, path) ==
    LET last == path[Len(path)]
        next == Successors(edges, last)
    IN  (IF path[1] \in next THEN {path} ELSE {})
        \cup UNION {CircuitsFrom(edges, nodes, Append(path, n)) :
                      n \in {m \in next :
                               /\ m \notin SeqToSet(path)
                               /\ IndexOf(nodes, m) > IndexOf(nodes, path[1])}}

\* nx.simple_cycles(G), each circuit from its first node
simple_cycles(edges) ==
    LET nodes == GraphNodes(edges, <<>>) IN
    UNION {CircuitsFrom(edges, nodes, <<nodes[i]>>) : i \in 1..Len(nodes)}

Rotate(c, r) == [i \in 1..Len(c) |-> c[((i + r - 1) % Len(c)) + 1]]

Cyclic(on) == [m |-> "Keyword depends cyclically on keyword", on |-> on]

\* The circuits of a set in the order of their first nodes
RECURSIVE CyclesInOrder(_, _)
CyclesInOrder(cycles, nodes) ==
    IF cycles = {} THEN <<>>
    ELSE LET c == CHOOSE x \in cycles :
                    \A y \in cycles :
                        IndexOf(nodes, x[1]) < IndexOf(nodes, y[1])
                        \/ (x[1] = y[1] /\ Len(x) <= Len(y))
         IN  <<c>> \o CyclesInOrder(cycles \ {c}, nodes)

\* "for c in cycles": one error per circuit, its keyword c[0] and the next
\* node c[1].  rot[c] is the node simple_cycles starts circuit c from.  A
\* circuit of one node has no c[1]: IndexError.
CyclicErrors(cs, rot) ==
    IF \E i \in 1..Len(cs) : Len(cs[i]) = 1 THEN Raise("IndexError")
    ELSE Ok([i \in 1..Len(cs) |->
               Error(Rotate(cs[i], rot[cs[i]])[1],
                     Cyclic(Rotate(cs[i], rot[cs[i]])[2]))])

\* cycles = list(nx.simple_cycles(nx.DiGraph(dependencies)))
CyclesOf(dependencies) ==
    CyclesInOrder(simple_cycles(dependencies), GraphNodes(dependencies, <<>>))

DependenciesOf(stencil) ==
    IF ~stencil.ok THEN stencil
    ELSE Ok(sections_default_dependencies(stencil.v, <<>>))

CheckCycles(dependencies, rot) ==
    IF ~dependencies.ok THEN dependencies
    ELSE CyclicErrors(CyclesOf(dependencies.v), rot)

check_cyclic_defaults(t, rot) ==
    CheckCycles(DependenciesOf(view_by_default(t)), rot)

\* The starts simple_cycles may give the circuits cs
Starts(cs) ==
    {rot \in [SeqToSet(cs) -> 0..Len(Flatten(cs))] :
        \A c \in SeqToSet(cs) : rot[c] < Len(c)}

CircuitsOf(dependencies) ==
    IF ~dependencies.ok THEN <<>> ELSE CyclesOf(dependencies.v)

Rotations(t) == Starts(CircuitsOf(DependenciesOf(view_by_default(t))))

Last(x) == x[Len(x)]

Reverse(x) == [i \in 1..Len(x) |-> x[Len(x) + 1 - i]]

\* "for node in nodes: for x in keywords: if x["name"] == node": the keyword
\* of that name, if the list still holds it, leaves the list for shuffle
RECURSIVE Shuffle(_, _, _)
Shuffle(keywords, nodes, shuffle) ==
    IF nodes = <<>> THEN keywords \o shuffle
    ELSE Shuffle(SelectSeq(keywords, LAMBDA x : x.name # Head(nodes)),
                 Tail(nodes),
                 shuffle \o SelectSeq(keywords, LAMBDA x : x.name = Head(nodes)))

LastOfEach(G) == Reverse([i \in 1..Len(G) |-> Last(G[i])])

\* nodes = reversed([x[-1] for x in nx.DiGraph(deps_hashable)])
ReorderNodes(keywords) ==
    LastOfEach(GraphNodes(sections_default_dependencies(
                              view_by_default_keywords(keywords), <<>>), <<>>))

ReorderKeywords(keywords) == Shuffle(keywords, ReorderNodes(keywords), <<>>)

RECURSIVE rec_reorder_template(_)
rec_reorder_template(t) ==
    [t EXCEPT !.keywords = IF t.hasKeywords THEN ReorderKeywords(t.keywords)
                                            ELSE t.keywords,
              !.sections = [i \in 1..Len(t.sections) |->
                               rec_reorder_template(t.sections[i])]]

\* A reordering without the copy: _rec_reoder_template writes to the template
\* of the caller
reorder_template_in_place(t) ==
    [ordered |-> rec_reorder_template(t), template |-> rec_reorder_template(t)]

\* ordered = deepcopy(template); _rec_reoder_template(ordered); return ordered.
\* _rec_reoder_template writes to the object it is handed, the copy: ordered
\* is what is returned, template the object of the caller after the call
reorder_template(t) ==
    [ordered |-> rec_reorder_template(t), template |-> t]

\* The outcome of the reordering, or the template as it is
Reordered(errs, r, t) ==
    Ok([errors |-> errs,
        ordered |-> IF errs = <<>> THEN r.ordered ELSE t,
        template |-> IF errs = <<>> THEN r.template ELSE t])

\* "if errors: raise ParselglossyError(...)", else the reordered template
Checked(errs, t) == Reordered(errs, reorder_template(t), t)

\* errors.extend(_check_cyclic_defaults(template))
Extended(errs, cyclic, t) ==
    IF ~cyclic.ok THEN cyclic ELSE Checked(errs \o cyclic.v, t)

\* Ok([errors, ordered]): with errors the template check raises its
\* ParselglossyError, without it returns ordered
is_template_valid(t, rot) ==
    Extended(rec_is_template_valid(t, <<>>), check_cyclic_defaults(t, rot), t)

(***************************************************************************)
(* validate                                                                 *)
(***************************************************************************)
NoViews == [stencil |-> EmptyDict, types |-> EmptyDict, predicates |-> EmptyDict]

\* The errors a plumbing call handed to its porcelain
Recorded(r) == IF r.ok THEN r.v.errors ELSE <<>>

\* A porcelain that hands the tree on whatever its plumbing recorded
PorcelainReturns(r, errs, exception) == IF ~r.ok THEN r.exc ELSE ""

\* The porcelain over a plumbing call r that recorded errs: the exception it
\* raises, "" when it returns
Porcelain(r, errs, exception) ==
    IF ~r.ok THEN r.exc ELSE IF errs # <<>> THEN exception ELSE ""

\* collate_errors(when=..., errors=...): the preamble names when, the lines
\* are the errors
collate_errors(when, errs) == [when |-> when, errors |-> errs]

NoMessage == collate_errors("", <<>>)

\* ParselglossyError(collate_errors(...)) if the porcelain raises it
Says(when, errs, exc, exception) ==
    IF exc = exception THEN collate_errors(when, errs) ELSE NoMessage

\* One phase of validate that hands a tree on: it raises or sets fr
Phase(when, r, exception, next) ==
    LET exc == Porcelain(r, Recorded(r), exception) IN
    /\ ran' = Append(ran, when)
    /\ errors' = Recorded(r)
    /\ report' = Says(when, Recorded(r), exc, exception)
    /\ built' = IF r.ok THEN r.v.outgoing ELSE EmptyDict
    /\ raised' = exc
    /\ pc' = IF exc = "" THEN next ELSE "raised"
    /\ fr' = IF exc = "" THEN r.v.outgoing ELSE fr

TemplateChecked(r) ==
    LET exc == Porcelain(r, Recorded(r), "ParselglossyError") IN
    /\ ran' = Append(ran, "checking the template")
    /\ errors' = Recorded(r)
    /\ report' = Says("checking the template", Recorded(r), exc,
                      "ParselglossyError")
    /\ raised' = exc
    /\ pc' = IF exc = "" THEN "checked" ELSE "raised"
    /\ ordered' = IF exc = "" THEN r.v.ordered ELSE ordered
    /\ template' = IF r.ok THEN r.v.template ELSE template

\* template_ok = is_template_valid(template)
CheckTemplate ==
    /\ pc = "start"
    /\ \E rot \in Rotations(template) :
          TemplateChecked(is_template_valid(template, rot))
    /\ UNCHANGED <<call, returned, given, ir, views, built, fr>>

Viewed(stencil, types, predicates) ==
    IF stencil.ok /\ types.ok /\ predicates.ok
    THEN /\ views' = [stencil |-> stencil.v, types |-> types.v,
                      predicates |-> predicates.v]
         /\ pc' = "viewed"
         /\ raised' = raised
    ELSE /\ views' = views
         /\ pc' = "raised"
         /\ raised' = "KeyError"

\* stencil, types, predicates: the views of template, not of template_ok
BuildViews ==
    /\ pc = "checked"
    /\ Viewed(view_by_default(template), view_by_type(template),
              view_by_predicates(template))
    /\ UNCHANGED <<call, returned, given, template, ir, ordered, built,
                   errors, fr, report, ran>>

\* fr = merge_ours(theirs=stencil, ours=ir); the merge writes to its
\* outgoing only
MergeOurs ==
    /\ pc = "viewed"
    /\ Phase("merging", rec_merge_ours(views.stencil, ir, <<>>),
             "ParselglossyError", "merged")
    /\ given' = ir
    /\ UNCHANGED <<call, returned, template, ir, ordered, views>>

\* The outcome of fix_defaults and the tree it was handed after the call
DefaultsFixed(r) ==
    /\ Phase("fixing defaults", r, "ParselglossyError", "fixed")
    /\ given' = IF r.ok THEN r.v.incoming ELSE fr

\* fr = fix_defaults(fr, types=types)
FixDefaults ==
    /\ pc = "merged"
    /\ DefaultsFixed(fix_defaults_from(fr, views.types))
    /\ UNCHANGED <<call, returned, template, ir, ordered, views>>

\* fr = typenade(fr, types=types)
Typenade ==
    /\ pc = "fixed"
    /\ Phase("checking types", rec_typenade(fr, views.types, TRUE, <<>>),
             "ValidationError", "typed")
    /\ given' = fr
    /\ UNCHANGED <<call, returned, template, ir, ordered, views>>

\* The errors of the predicates, as a plumbing result with errors
WithErrors(r) == IF r.ok THEN Ok([errors |-> r.v]) ELSE r

PredicatesChecked(r) ==
    LET exc == Porcelain(r, Recorded(r), "ParselglossyError") IN
    /\ ran' = Append(ran, "checking predicates")
    /\ errors' = Recorded(r)
    /\ report' = Says("checking predicates", Recorded(r), exc,
                      "ParselglossyError")
    /\ raised' = exc
    /\ pc' = IF exc = "" THEN "done" ELSE "raised"

\* predicates_ok = check_predicates(fr, predicates=predicates); return fr
CheckPredicates ==
    /\ pc = "typed"
    /\ PredicatesChecked(
           WithErrors(rec_check_predicates(fr, views.predicates, fr, <<>>)))
    /\ given' = fr
    /\ UNCHANGED <<call, returned, template, ir, ordered, views, built,
                   fr>>

\* No function is called on its own while validate runs
NoCall == [f |-> ""]

\* A call that has not returned
Pending == [pending |-> TRUE]

Next ==
    \/ CheckTemplate
    \/ BuildViews
    \/ MergeOurs
    \/ FixDefaults
    \/ Typenade
    \/ CheckPredicates

(***************************************************************************)
(* The templates and inputs validate is run on                              *)
(***************************************************************************)
\* Integers 0..MaxInt stand for the numbers of defaults and of user input
MaxInt == 1

Ints == {PyInt(i) : i \in 0..MaxInt}

Root(keywords, sections) == Section("", NoKey, keywords, sections)

\* A well-formed keyword of type int
IntKeyword(name, default) == Keyword(name, "int", "doc", default, Absent)

Orders(S) ==
    {p \in [1..Cardinality(S) -> S] : \A i, j \in 1..Cardinality(S) :
                                          i # j => p[i] # p[j]}

\* Well-formedness: a keyword at the root, a section with a keyword and a
\* nested section; every type, docstring and "sections" key may be wrong
KeywordShapes(name) ==
    {[name |-> name, type |-> ty, docstring |-> doc, default |-> PyInt(0),
      predicates |-> Absent, sections |-> sec] :
        ty \in {"int", NoKey, "fooffa"}, doc \in {"doc", NoKey, " "},
        sec \in BOOLEAN}

TemplatesShape ==
    {Root(<<ka>>, <<Section("s", sdoc, <<kx>>,
                            <<Section("t", tdoc, <<>>, <<>>)>>)>>) :
        ka \in KeywordShapes("a"), kx \in KeywordShapes("x"),
        sdoc \in {"doc", NoKey, ""}, tdoc \in {"doc", NoKey}}
    \cup
    \* nodes without the key "keywords", as the templates of the tests have
    {[Root(<<>>, <<Section("s", sdoc, <<IntKeyword("x", PyInt(0))>>, <<>>)>>)
         EXCEPT !.hasKeywords = FALSE] : sdoc \in {"doc", NoKey}}

\* Defaults that depend on each other: three keywords at the root in any
\* order, each default a number, a reference to a keyword (itself too) or
\* the sum of the two other keywords
RootNames == {"a", "b", "c"}

RootDefaults(name) ==
    Ints
    \cup {Ref(<<o>>) : o \in RootNames}
    \cup {Expr("add", <<<<o[1]>>, <<o[2]>>>>) : o \in Orders(RootNames \ {name})}

TemplatesRoot ==
    {Root([i \in 1..3 |-> IntKeyword(p[i], d[p[i]])], <<>>) :
        p \in Orders(RootNames),
        d \in {f \in [RootNames -> UNION {RootDefaults(n) : n \in RootNames}] :
                 \A n \in RootNames : f[n] \in RootDefaults(n)}}

\* Defaults across sections: a keyword at the root and two in section s
TemplatesCross ==
    {Root(<<IntKeyword("a", da)>>,
          <<Section("s", "doc",
                    [i \in 1..2 |-> IF p[i] = "x" THEN IntKeyword("x", dx)
                                                  ELSE IntKeyword("y", dy)],
                    <<>>)>>) :
        p \in Orders({"x", "y"}),
        da \in {PyInt(1), Ref(<<"s", "x">>), Ref(<<"s", "y">>)},
        dx \in {PyInt(1), Ref(<<"s", "y">>), Ref(<<"a">>),
                Expr("add", <<<<"a">>, <<"s", "y">>>>)},
        dy \in {PyInt(0), Ref(<<"s", "x">>), Ref(<<"a">>), Ref(<<"q">>)}}

\* Callables that fail: b is computed from a and c
TemplatesEval ==
    {Root(<<Keyword("a", ta, "doc", da, Absent), IntKeyword("c", PyInt(1)),
            Keyword("b", tb, "doc", db, Absent)>>, <<>>) :
        ta \in {"int", "str"}, tb \in {"int", "bool", "str", "List[int]"},
        da \in Ints \cup {Plain("w"), Ref(<<"c">>)},
        db \in {Ref(<<"a">>), Ref(<<"a", "k">>), Ref(<<"q">>),
                Expr("div", <<<<"c">>, <<"a">>>>),
                Expr("add", <<<<"c">>, <<"a">>>>),
                PyStr([k |-> "bare"]),
                PyStr([k |-> "broken", refs |-> <<<<"a">>>>])}}

\* Merging: keywords with and without a default at three levels
Predicates == PyList(<<Pred("ge", 0), Pred("lt", MaxInt)>>)

TemplatesMerge ==
    {Root(<<Keyword("title", "str", "doc", dt, Absent),
            Keyword("n", "int", "doc", PyInt(0), Predicates)>>,
          <<Section("s", "doc",
                    <<IntKeyword("x", dx), IntKeyword("y", Ref(<<"s", "x">>))>>,
                    <<Section("t", "doc", <<IntKeyword("e", Absent)>>, <<>>)>>)>>) :
        dt \in {Absent, Plain("w")}, dx \in {Absent, PyInt(0)}}

\* A dict of the entries that are there: Absent stands for a key left out
DictOf(entries) ==
    PyDict(SelectSeq(entries, LAMBDA e : e.v # Absent))

Entry(k, v) == [k |-> k, v |-> v]

InputsMerge ==
    {DictOf(<<Entry("title", title), Entry("n", n), Entry("z", z),
              Entry("s", s)>>) :
        title \in {Absent, Plain("u"), EmptyDict, PyDict(<<Entry("q", PyInt(0))>>)},
        n \in {Absent, Plain("u")} \cup Ints,
        z \in {Absent, PyInt(0), EmptyDict},
        s \in {Absent, PyInt(0)} \cup
              {DictOf(<<Entry("x", x), Entry("y", y), Entry("z", sz),
                        Entry("t", t)>>) :
                  x \in {Absent, PyInt(0)}, y \in {Absent, PyInt(1)},
                  sz \in {Absent, PyInt(0)},
                  t \in {Absent, EmptyDict, PyDict(<<Entry("e", PyInt(1))>>),
                         PyDict(<<Entry("z", EmptyDict)>>)}}}

\* Predicates: a keyword at the root and one in a section, each with up to
\* two predicates that hold, fail or cannot be evaluated
PredicatePool ==
    {Pred("ge", MaxInt), Pred("lt", 0), Pred("inv", 0), Pred("name", 0),
     Pred("broken", 0), PredRef(<<"s", "x">>), PredRef(<<"s">>),
     PredRef(<<"q">>)}

PredicateLists ==
    {Absent} \cup {PyList(<<p>>) : p \in PredicatePool}
             \cup {PyList(<<p, q>>) : p, q \in PredicatePool}

TemplatesPredicates ==
    {Root(<<Keyword("n", "int", "doc", dn, pn)>>,
          <<Section("s", "doc", <<Keyword("x", "int", "doc", dx, px)>>,
                    <<>>)>>) :
        dn \in Ints, dx \in Ints, pn \in PredicateLists,
        px \in {Absent, PyList(<<Pred("lt", 0), Pred("ge", MaxInt)>>),
                PyList(<<PredRef(<<"q">>)>>)}}

\* Complex numbers: YAML has no complex literal, so a complex number may
\* come as the str that spells it
ComplexStr(c) == PyStr([k |-> "repr", of |-> c])

ComplexNumbers == {PyComplex(re, 1) : re \in 0..MaxInt}

TemplatesComplex ==
    {Root(<<Keyword("z", "complex", "doc", dz, Absent),
            Keyword("zs", "List[complex]", "doc", dzs, Absent)>>, <<>>) :
        dz \in ComplexNumbers \cup {ComplexStr(c) : c \in ComplexNumbers},
        dzs \in {PyList(<<>>)}
                \cup {PyList(<<c>>) : c \in ComplexNumbers}
                \cup {PyList(<<ComplexStr(c), ComplexStr(PyComplex(0, 0))>>) :
                        c \in ComplexNumbers}}

\* Names that hold the text "value": a keyword compared with the keyword
\* max_value, with a keyword of the section values, or with the keyword m
TemplatesPlaceholder ==
    {Root(<<Keyword("n", "int", "doc", dn, pn), IntKeyword("m", dm),
            IntKeyword("max_value", dm)>>,
          <<Section("values", "doc",
                    <<Keyword("x", "int", "doc", dm,
                              PyList(<<Pred("ge", 0)>>))>>, <<>>)>>) :
        dn \in Ints, dm \in Ints,
        pn \in {PyList(<<PredRef(<<"m">>)>>),
                PyList(<<PredRef(<<"max_value">>)>>),
                PyList(<<PredRef(<<"values", "x">>)>>),
                PyList(<<Pred("ge", 0), PredRef(<<"max_value">>)>>)}}

Cases ==
    {<<t, EmptyDict>> : t \in TemplatesShape \cup TemplatesRoot
                              \cup TemplatesCross \cup TemplatesEval
                              \cup TemplatesPredicates \cup TemplatesComplex
                              \cup TemplatesPlaceholder}
    \cup (TemplatesMerge \X InputsMerge)

Init ==
    /\ pc = "start"
    /\ \E c \in Cases : template = c[1] /\ ir = c[2]
    /\ ordered = Root(<<>>, <<>>)
    /\ views = NoViews
    /\ built = EmptyDict
    /\ errors = <<>>
    /\ fr = EmptyDict
    /\ raised = ""
    /\ report = NoMessage
    /\ ran = <<>>
    /\ call = NoCall
    /\ returned = Pending
    /\ given = EmptyDict

Spec == Init /\ [][Next]_vars

(***************************************************************************)
(* Functions called on their own: validate does not run, one function is    *)
(* called with arguments drawn from a set and returns or raises             *)
(***************************************************************************)
\* The state of validate while a function is called on its own
Idle ==
    /\ template = Root(<<>>, <<>>)
    /\ ir = EmptyDict
    /\ ordered = Root(<<>>, <<>>)
    /\ views = NoViews
    /\ built = EmptyDict
    /\ errors = <<>>
    /\ fr = EmptyDict
    /\ raised = ""
    /\ report = NoMessage
    /\ ran = <<>>
    /\ given = EmptyDict

Returns(r) ==
    /\ pc' = "returned"
    /\ returned' = r
    /\ UNCHANGED <<call, given, template, ir, ordered, views, built, errors,
                   fr, raised, report, ran>>

\* A sequence that is no list
PyTuple(l) == [t |-> "tuple", l |-> l]

\* Scalars of every type, and None
Scalars ==
    Ints \cup {PyFloat(i) : i \in 0..MaxInt} \cup {PyBool(b) : b \in BOOLEAN}
         \cup {Plain("w"), PyComplex(0, 1), None}

\* Lists and tuples of up to two scalars
Sequences2 ==
    {<<>>} \cup {<<x>> : x \in Scalars} \cup {<<x, y>> : x, y \in Scalars}

Values ==
    Scalars \cup {PyList(l) : l \in Sequences2}
            \cup {PyTuple(l) : l \in Sequences2}
            \cup {EmptyDict}

\* type_matches(value, expected_type), for every allowed type and one that
\* is not allowed
InitTypeMatches ==
    /\ pc = "call"
    /\ call \in {[f |-> "type_matches", value |-> v, expected_type |-> t] :
                   v \in Values, t \in allowed_types \cup {"fooffa"}}
    /\ returned = Pending
    /\ Idle

TypeMatches ==
    /\ pc = "call"
    /\ call.f = "type_matches"
    /\ Returns(type_matches(call.value, call.expected_type))

SpecTypeMatches == InitTypeMatches /\ [][TypeMatches]_vars

\* type_fixers[t](x), for every allowed type and every scalar, list of up
\* to two scalars and the empty dict
InitTypeFix ==
    /\ pc = "call"
    /\ call \in {[f |-> "type_fixers", t |-> t, x |-> x] :
                   t \in allowed_types,
                   x \in Scalars \cup {PyList(l) : l \in Sequences2}
                                 \cup {EmptyDict}}
    /\ returned = Pending
    /\ Idle

TypeFix ==
    /\ pc = "call"
    /\ call.f = "type_fixers"
    /\ Returns(type_fixers(call.t, call.x))

SpecTypeFix == InitTypeFix /\ [][TypeFix]_vars

\* The views: a keyword at the root and one in a section, each with or
\* without type, docstring, default and predicates, a nested section, and
\* nodes without the key "keywords"
KeywordViews(name) ==
    {Keyword(name, ty, doc, default, predicates) :
        ty \in {"int", NoKey}, doc \in {"doc", "doc ", " ", NoKey},
        default \in {Absent, PyInt(0)}, predicates \in {Absent, Predicates}}

TemplatesViews ==
    {[Root(<<ka>>, <<Section("s", "doc", <<kx>>,
                             <<Section("t", NoKey, <<>>, <<>>)>>)>>)
         EXCEPT !.hasKeywords = has] :
        ka \in KeywordViews("a"), kx \in KeywordViews("x"), has \in BOOLEAN}

InitViewBy ==
    /\ pc = "call"
    /\ call \in {[f |-> "view_by", what |-> what, d |-> d] :
                   what \in possible_views \cup {"foobar"},
                   d \in TemplatesViews}
    /\ returned = Pending
    /\ Idle

\* view_by_type, view_by_default, view_by_docstring, view_by_predicates, and
\* view_by of something else
ViewBy ==
    /\ pc = "call"
    /\ call.f = "view_by"
    /\ Returns(CASE call.what = "type" -> view_by_type(call.d)
                 [] call.what = "default" -> view_by_default(call.d)
                 [] call.what = "docstring" -> view_by_docstring(call.d)
                 [] call.what = "predicates" -> view_by_predicates(call.d)
                 [] OTHER -> view_by(call.what, call.d, None, "plain"))

SpecViewBy == InitViewBy /\ [][ViewBy]_vars

\* json.dump(fr, cls=ComplexEncoder) and json.load(object_hook=as_complex).
\* A JSON document is written as the value it spells: an object is a dict,
\* an array a list, and a number is an int or a float as its text has a
\* fraction or not; there is no complex number and no tuple in a document.
\* ComplexEncoder.default(obj)
ComplexEncoder_default(obj) ==
    IF obj.t = "complex"
    THEN Ok(PyDict(<<Entry("__complex__",
                           PyList(<<PyFloat(obj.re), PyFloat(obj.im)>>))>>))
    ELSE Raise("TypeError")

\* A dict of the keys ks with the values rs, or the first failure among rs
Itemized(ks, rs) ==
    IF \E i \in 1..Len(rs) : ~rs[i].ok
    THEN Raise(rs[CHOOSE i \in 1..Len(rs) :
                      ~rs[i].ok /\ \A j \in 1..(i - 1) : rs[j].ok].exc)
    ELSE Ok(PyDict([i \in 1..Len(rs) |-> Entry(ks[i], rs[i].v)]))

RECURSIVE json_dump(_)

\* What default returned is encoded in place of the object
Defaulted(r) == IF r.ok THEN json_dump(r.v) ELSE r

json_dump(v) ==
    CASE v.t = "dict" ->
            Itemized(keys(v), [i \in 1..Len(v.items) |-> json_dump(v.items[i].v)])
      [] v.t \in {"list", "tuple"} ->
            Listed([i \in 1..Len(v.l) |-> json_dump(v.l[i])])
      [] v.t \in {"str", "int", "float", "bool", "NoneType"} -> Ok(v)
      [] OTHER -> Defaulted(ComplexEncoder_default(v))

\* v[i] for i = 0, 1
Subscript(v, i) ==
    CASE v.t = "list" ->
            IF i < Len(v.l) THEN Ok(v.l[i + 1]) ELSE Raise("IndexError")
      [] v.t = "str" -> Ok(PyStr([k |-> "chars", of |-> v.s]))
      [] v.t = "dict" -> RaiseKey(i)
      [] OTHER -> Raise("TypeError")

\* complex(real, imag) of two values that were looked up
complex2(real, imag) ==
    IF ~real.ok THEN real
    ELSE IF ~imag.ok THEN imag
    ELSE IF IsNumber(real.v) /\ IsNumber(imag.v)
    THEN Ok(PyComplex(NumberOf(real.v), NumberOf(imag.v)))
    ELSE Raise("TypeError")

as_complex(dct) ==
    IF Has(dct, "__complex__")
    THEN complex2(Subscript(Get(dct, "__complex__"), 0),
                  Subscript(Get(dct, "__complex__"), 1))
    ELSE Ok(dct)

\* object_hook is called with every object that was read
Hooked(r) == IF r.ok THEN as_complex(r.v) ELSE r

RECURSIVE json_load(_)
json_load(doc) ==
    CASE doc.t = "dict" ->
            Hooked(Itemized(keys(doc),
                            [i \in 1..Len(doc.items) |->
                                json_load(doc.items[i].v)]))
      [] doc.t = "list" -> Listed([i \in 1..Len(doc.l) |-> json_load(doc.l[i])])
      [] OTHER -> Ok(doc)

\* The values of a tree validate returns
TreeValues ==
    {PyInt(1), PyFloat(1), PyBool(TRUE), Plain("w"), PyList(<<>>),
     PyList(<<Plain("w")>>), PyList(<<PyFloat(0), PyFloat(1)>>)}
    \cup {PyComplex(re, 1) : re \in 0..MaxInt}
    \cup {PyList(<<PyComplex(re, 0), PyComplex(1, re)>>) : re \in 0..MaxInt}

\* A keyword at the root and a section of two keywords, whatever their names
Trees ==
    {PyDict(<<Entry("z", z),
              Entry("s", PyDict(<<Entry("x", x), Entry(name, y)>>))>>) :
        z \in TreeValues, x \in TreeValues, y \in TreeValues,
        name \in {"y", "__complex__"}}

InitRoundTrip ==
    /\ pc = "call"
    /\ call \in {[f |-> "json", fr |-> tree] : tree \in Trees}
    /\ returned = Pending
    /\ Idle

\* json.dump(fr, outfile, cls=ComplexEncoder)
Dump ==
    /\ pc = "call"
    /\ call.f = "json"
    /\ pc' = "dumped"
    /\ returned' = json_dump(call.fr)
    /\ UNCHANGED <<call, given, template, ir, ordered, views, built, errors,
                   fr, raised, report, ran>>

Loaded(r) == IF r.ok THEN json_load(r.v) ELSE r

\* json.load(v, object_hook=as_complex)
Load ==
    /\ pc = "dumped"
    /\ Returns(Loaded(returned))

NextRoundTrip == Dump \/ Load

SpecRoundTrip == InitRoundTrip /\ [][NextRoundTrip]_vars

(***************************************************************************)
(* What the properties speak of                                             *)
(***************************************************************************)
\* The keywords a template declares, each with its address
RECURSIVE Fields(_, _)
Fields(t, address) ==
    {[address |-> address \o <<t.keywords[i].name>>, keyword |-> t.keywords[i]] :
        i \in 1..Len(t.keywords)}
    \cup UNION {Fields(t.sections[i], address \o <<t.sections[i].name>>) :
                  i \in 1..Len(t.sections)}

\* The nesting levels a merge of ours into theirs visits: the root, and every
\* section of theirs that ours holds
RECURSIVE Levels(_, _, _)
Levels(theirs, ours, address) ==
    {[address |-> address, theirs |-> theirs, ours |-> ours]}
    \cup UNION {Levels(Get(theirs, k), Get(ours, k), address \o <<k>>) :
                  k \in {x \in KeySet(theirs) \cap KeySet(ours) :
                           isinstance_dict(Get(theirs, x))}}

Unknown(level) == KeySet(level.ours) \ KeySet(level.theirs)

Kind(v) == IF isinstance_dict(v) THEN "section" ELSE "keyword"

Count(seq, x) == Cardinality({i \in DOMAIN seq : seq[i] = x})

IsPrefix(a, b) == Len(a) <= Len(b) /\ a = SubSeq(b, 1, Len(a))

\* The aggregated failures the porcelains raise
Aggregated == {"ParselglossyError", "ValidationError"}

\* The four phases in their order; validate checks the types between the
\* last two
PhaseOrder ==
    <<"checking the template", "merging", "fixing defaults",
      "checking predicates">>

Claimed(phases) == SelectSeq(phases, LAMBDA w : w # "checking types")

\* merge_ours has just handed its tree and its errors to the porcelain
Merging == ran # <<>> /\ Last(ran) = "merging" /\ raised \in {""} \cup Aggregated

MergeLevels == Levels(views.stencil, ir, <<>>)

Satisfied(p, address, tree) == EvalPredicate(p, address, tree) = Ok(TRUE)

Conforms(tree, t) ==
    \A f \in Fields(t, <<>>) :
        LET v == Lookup(tree, f.address) IN
        /\ v.ok
        /\ v.v # None
        /\ type_matches(v.v, f.keyword.type) = Ok(TRUE)
        /\ f.keyword.predicates # Absent =>
              \A i \in 1..Len(f.keyword.predicates.l) :
                  Satisfied(f.keyword.predicates.l[i], f.address, tree)

ReturnedTreeConforms ==
    /\ pc = "done" => Conforms(fr, template)
    /\ errors # <<>> => pc # "done"

\* C3: after a merge every keyword without a default that ours does not hold
\* (its key or a section above it is missing) has its "is required" error at
\* its address and None in the merged tree.
RequiredReported ==
    Merging =>
        \A f \in Fields(template, <<>>) :
            (f.keyword.default = Absent /\ ~Lookup(ir, f.address).ok) =>
                /\ Count(errors, Error(f.address, Required(f.keyword.name))) = 1
                /\ Lookup(built, f.address) = Ok(None)

\* C4: at every level the merge visits each key of ours that theirs does not
\* hold gives one "Found unexpected" error, of a section if its value is a
\* dict and of a keyword if not, and is not in the merged tree; the unknown
\* keys of all levels are reported together, and nothing else is reported as
\* unexpected.
UnexpectedReported ==
    Merging =>
        /\ \A l \in MergeLevels : \A k \in Unknown(l) :
              /\ Count(errors, Error(<<>>, Unexpected(Kind(Get(l.ours, k)), k)))
                    = Cardinality({m \in MergeLevels :
                                     /\ k \in Unknown(m)
                                     /\ Kind(Get(m.ours, k)) = Kind(Get(l.ours, k))})
              /\ ~Lookup(built, l.address \o <<k>>).ok
        /\ \A i \in DOMAIN errors :
              errors[i].message.m = "Found unexpected" =>
                  \E l \in MergeLevels :
                      /\ errors[i].message.key \in Unknown(l)
                      /\ errors[i].message.what
                            = Kind(Get(l.ours, errors[i].message.key))

\* Unknown keys at two levels, a dict among their values
UnknownAtTwoLevels ==
    /\ Merging
    /\ Cardinality({l \in MergeLevels : Unknown(l) # {}}) >= 2
    /\ \E l \in MergeLevels : \E k \in Unknown(l) : isinstance_dict(Get(l.ours, k))

\* C5: at every level the merge visits, the merged tree holds under the key
\* of a keyword the value of ours, unchanged, if ours holds the key, and the
\* default of theirs only if it does not.
OursWins ==
    Merging =>
        \A l \in MergeLevels : \A k \in KeySet(l.theirs) :
            ~isinstance_dict(Get(l.theirs, k)) =>
                Lookup(built, l.address \o <<k>>)
                    = Ok(IF Has(l.ours, k) THEN Get(l.ours, k)
                                           ELSE Get(l.theirs, k))

\* Ours overrides a default that is there, and a default fills a missing key
Overridden ==
    /\ Merging
    /\ \E l \in MergeLevels : \E k \in KeySet(l.theirs) \cap KeySet(l.ours) :
          /\ ~isinstance_dict(Get(l.theirs, k))
          /\ Get(l.theirs, k) \notin {None, Get(l.ours, k)}
    /\ \E l \in MergeLevels : \E k \in KeySet(l.theirs) \ KeySet(l.ours) :
          ~isinstance_dict(Get(l.theirs, k)) /\ Get(l.theirs, k) # None

\* C6: merging a tree that a merge without errors built gives the same tree
\* again, without errors.
MergeIdempotent ==
    (Merging /\ errors = <<>>) =>
        rec_merge_ours(views.stencil, built, <<>>) = Merged(built, <<>>)

\* A merge without errors that filled in defaults, a None under a section
\* that ours left out among them
MergedWithDefaults ==
    /\ Merging
    /\ errors = <<>>
    /\ built # ir
    /\ \E f \in Fields(template, <<>>) : Lookup(built, f.address) = Ok(None)

\* is_template_valid has just run
TemplateCheck == ran = <<"checking the template">>

\* The sections of a template below its root, each with its address
RECURSIVE SectionsOf(_, _)
SectionsOf(t, address) ==
    UNION {{[address |-> address \o <<t.sections[i].name>>,
             section |-> t.sections[i]]}
           \cup SectionsOf(t.sections[i], address \o <<t.sections[i].name>>) :
              i \in 1..Len(t.sections)}

\* The keywords the default of a keyword names: one edge for each user[..]
\* reference of the default, from the address of the keyword to the address
\* the reference gives
References(default) ==
    IF default.t = "str" /\ default.s.k \in {"expr", "broken"}
    THEN SeqToSet(default.s.refs) ELSE {}

DefaultEdges(t) ==
    UNION {{<<f.address, r>> : r \in References(f.keyword.default)} :
              f \in Fields(t, <<>>)}

RECURSIVE ReachFrom(_, _)
ReachFrom(edges, S) ==
    LET N == S \cup {e[2] : e \in {x \in edges : x[1] \in S}} IN
    IF N = S THEN S ELSE ReachFrom(edges, N)

\* a is on a cycle of the edges
OnCycle(edges, a) ==
    a \in ReachFrom(edges, {e[2] : e \in {x \in edges : x[1] = a}})

Acyclic(t) == \A f \in Fields(t, <<>>) : ~OnCycle(DefaultEdges(t), f.address)

CyclicError(e) == e.message.m = "Keyword depends cyclically on keyword"

\* C7: the check of a template with a cycle among its defaults fails, with
\* a "depends cyclically" error for every keyword on a cycle.
CyclesReported ==
    TemplateCheck =>
        \A f \in Fields(template, <<>>) :
            OnCycle(DefaultEdges(template), f.address) =>
                /\ raised = "ParselglossyError"
                /\ \E i \in DOMAIN errors :
                      CyclicError(errors[i]) /\ errors[i].address = f.address

\* The violations of a template, as the errors that report them
Violations(t) ==
    UNION {{Error(f.address, [m |-> "Sections cannot be nested under keywords."]) :
                x \in {y \in {f} : y.keyword.sections}}
           \cup {Error(f.address, [m |-> "Keywords must have a valid type."]) :
                   x \in {y \in {f} : y.keyword.type \notin allowed_types}}
           \cup {Error(f.address, [m |-> "Keywords must have a non-empty docstring."]) :
                   x \in {y \in {f} : y.keyword.docstring \in {NoKey, "", " "}}} :
              f \in Fields(t, <<>>)}
    \cup {Error(x.address, [m |-> "Sections must have a non-empty docstring."]) :
            x \in {y \in SectionsOf(t, <<>>) :
                     y.section.docstring \in {NoKey, "", " "}}}

WellFormed(t) == Violations(t) = {}

\* The position of the keyword of a name in a list of keywords, 0 for none
Position(keywords, name) ==
    IF \E i \in 1..Len(keywords) : keywords[i].name = name
    THEN CHOOSE i \in 1..Len(keywords) : keywords[i].name = name
    ELSE 0

\* In every node a keyword stands after the keywords of the node that its
\* default names
RECURSIVE SiblingsOrdered(_, _)
SiblingsOrdered(t, address) ==
    /\ \A i \in 1..Len(t.keywords) :
          \A r \in References(t.keywords[i].default) :
              (/\ Len(r) = Len(address) + 1
               /\ SubSeq(r, 1, Len(address)) = address
               /\ Position(t.keywords, Last(r)) # 0) =>
                  Position(t.keywords, Last(r)) < i
    /\ \A i \in 1..Len(t.sections) :
          SiblingsOrdered(t.sections[i], address \o <<t.sections[i].name>>)

\* C8: the check of a well-formed template without a cycle among its
\* defaults succeeds, whatever the order of the keywords, and returns a
\* template where every keyword stands after the siblings its default names.
ReorderedByDependencies ==
    (TemplateCheck /\ WellFormed(template) /\ Acyclic(template)) =>
        /\ raised = ""
        /\ SiblingsOrdered(ordered, <<>>)

\* The errors of the well-formedness, without those of the cycles
Recorded_Violations == SelectSeq(errors, LAMBDA e : ~CyclicError(e))

FailuresCaught ==
    (ran # <<>> /\ Last(ran) = "fixing defaults" /\ ir = EmptyDict) =>
        /\ raised \in {"", "ParselglossyError"}
        /\ \A i, j \in DOMAIN errors :
              errors[i].address = errors[j].address => i = j

\* fix_defaults has just handed its tree and its errors to the porcelain
FixingDefaults ==
    /\ ran # <<>>
    /\ Last(ran) = "fixing defaults"
    /\ raised \in {"", "ParselglossyError"}

\* The tree the merge handed to fix_defaults
MergedTree == rec_merge_ours(views.stencil, ir, <<>>).v.outgoing

\* The values of a tree that are no dict, each with its address
RECURSIVE Leaves(_, _)
Leaves(tree, address) ==
    UNION {IF isinstance_dict(tree.items[i].v)
           THEN Leaves(tree.items[i].v, address \o <<tree.items[i].k>>)
           ELSE {[address |-> address \o <<tree.items[i].k>>,
                  value |-> tree.items[i].v]} :
              i \in 1..Len(tree.items)}

\* The declared type of the keyword at an address
DeclaredType(address) == TypeName(Lookup(views.types, address).v)

\* A value that neither matches its declared type nor is a callable
Mismatched(f) ==
    /\ type_matches(f.value, DeclaredType(f.address)) = Ok(FALSE)
    /\ ~(f.value.t = "str" /\ HasUser(f.value.s))

\* A field fix_defaults gave no value: its key is left out or holds None
Failing(tree, f) ==
    LET v == Lookup(tree, f.address) IN ~v.ok \/ v.v = None

ErrorsAt(address) ==
    Cardinality({i \in DOMAIN errors : errors[i].address = address})

\* C11: fix_defaults goes through every keyword of the merged tree, in all
\* sections, whatever failed before: a keyword it could give no value has
\* exactly one error, at its address, every other keyword has none, so there
\* are as many errors as failing keywords; a value that neither matches its
\* type nor is a callable is among the failing ones.
DefaultsAccumulate ==
    FixingDefaults =>
        /\ \A f \in Leaves(MergedTree, <<>>) :
              /\ ErrorsAt(f.address) = IF Failing(built, f) THEN 1 ELSE 0
              /\ Mismatched(f) =>
                    Count(errors,
                          Error(f.address,
                                TypesDoNotMatch(f.value,
                                                DeclaredType(f.address)))) = 1
        /\ Len(errors)
              = Cardinality({f \in Leaves(MergedTree, <<>>) : Failing(built, f)})
        /\ errors # <<>> <=> raised = "ParselglossyError"

\* Keywords fail at the root, in a section (two of them) and in a nested
\* section, and another keyword is fixed
ManyDefaultsFail ==
    /\ FixingDefaults
    /\ \A n \in 1..3 : \E i \in DOMAIN errors : Len(errors[i].address) = n
    /\ Len(errors) >= 4
    /\ \E f \in Leaves(MergedTree, <<>>) : ~Failing(built, f)

\* The references of a callable in the order they are evaluated
Operands(text) == IF text.op = "ref" THEN <<text.refs[1]>> ELSE text.refs

\* The keys a callable does not find: the first reference that does not
\* resolve names a key its dict does not hold
Dangling(f) ==
    IF f.value.t = "str" /\ f.value.s.k = "expr"
    THEN {Lookup(MergedTree, Operands(f.value.s)[n]).key :
            n \in {m \in DOMAIN Operands(f.value.s) :
                     /\ Lookup(MergedTree, Operands(f.value.s)[m]).ok = FALSE
                     /\ Lookup(MergedTree, Operands(f.value.s)[m]).exc = "KeyError"
                     /\ \A l \in 1..(m - 1) :
                           Lookup(MergedTree, Operands(f.value.s)[l]).ok}}
    ELSE {}

\* The value is run as a callable: it is a str that its declared type does
\* not match
Evaluated(f) ==
    /\ f.value.t = "str"
    /\ HasUser(f.value.s)
    /\ DeclaredType(f.address) # "str"

\* C12: a default that is run as a callable and names a key the tree does
\* not hold gives one error "KeyError <key> in closure <callable>" at the
\* address of its keyword, validation fails with it, the KeyError does not
\* leave fix_defaults, and every other keyword has its value or its error.
DanglingReported ==
    (ran # <<>> /\ Last(ran) = "fixing defaults") =>
        /\ raised # "KeyError"
        /\ FixingDefaults =>
              \A f \in Leaves(MergedTree, <<>>) : \A key \in Dangling(f) :
                  Evaluated(f) =>
                      /\ raised = "ParselglossyError"
                      /\ report = collate_errors("fixing defaults", errors)
                      /\ Count(errors,
                               Error(f.address,
                                     InClosure(RaiseKey(key), f.value))) = 1
                      /\ ErrorsAt(f.address) = 1
                      /\ \A g \in Leaves(MergedTree, <<>>) :
                            Failing(built, g) => ErrorsAt(g.address) = 1

\* A callable in a section names a key that is not there, and a keyword after
\* it is fixed
DanglingInSection ==
    /\ FixingDefaults
    /\ \E f \in Leaves(MergedTree, <<>>) :
          /\ Dangling(f) # {}
          /\ Evaluated(f)
          /\ Len(f.address) = 2
          /\ \E g \in Leaves(MergedTree, <<>>) :
                /\ ~Failing(built, g)
                /\ g.address[1] = f.address[1]
                /\ \E i, j \in 1..Len(Lookup(MergedTree, <<f.address[1]>>).v.items) :
                      /\ i < j
                      /\ Lookup(MergedTree, <<f.address[1]>>).v.items[i].k
                            = f.address[2]
                      /\ Lookup(MergedTree, <<f.address[1]>>).v.items[j].k
                            = Last(g.address)

\* The values of a tree that are no dict in the order fix_defaults meets them
RECURSIVE LeafSeq(_, _, _)
LeafSeq(tree, address, i) ==
    IF i > Len(tree.items) THEN <<>>
    ELSE (IF isinstance_dict(tree.items[i].v)
          THEN LeafSeq(tree.items[i].v, address \o <<tree.items[i].k>>, 1)
          ELSE <<[address |-> address \o <<tree.items[i].k>>,
                  value |-> tree.items[i].v]>>)
         \o LeafSeq(tree, address, i + 1)

\* tree with the value at an address replaced
RECURSIVE Replaced(_, _, _)
Replaced(tree, address, value) ==
    IF address = <<>> THEN value
    ELSE PyDict([i \in 1..Len(tree.items) |->
                    IF tree.items[i].k = Head(address)
                    THEN Entry(tree.items[i].k,
                               Replaced(tree.items[i].v, Tail(address), value))
                    ELSE tree.items[i]])

\* The tree resolved so far when the n-th keyword is met: the merged tree
\* with the value fix_defaults gave to each keyword before it
RECURSIVE ResolvedSoFar(_, _)
ResolvedSoFar(leaves, n) ==
    IF n = 1 THEN MergedTree
    ELSE IF Failing(built, leaves[n - 1]) THEN ResolvedSoFar(leaves, n - 1)
    ELSE Replaced(ResolvedSoFar(leaves, n - 1), leaves[n - 1].address,
                  Lookup(built, leaves[n - 1].address).v)

\* type_fixers[t] of what the callable evaluates to on a tree
Coerced(r, t) == IF r.ok THEN type_fixers(t, r.v) ELSE r

IsCallable(f) ==
    /\ type_matches(f.value, DeclaredType(f.address)) = Ok(FALSE)
    /\ f.value.t = "str"
    /\ HasUser(f.value.s)

CallableAt(leaves, n) ==
    Coerced(Eval(leaves[n].value.s, ResolvedSoFar(leaves, n)),
            DeclaredType(leaves[n].address))

\* C13: a value that does not match its declared type and is a str holding
\* "user" is evaluated on the tree resolved so far (the merged tree with the
\* values already fixed) and what it gives is coerced to the declared type:
\* that is the value of the keyword in the tree fix_defaults builds.
CallableCoerced ==
    FixingDefaults =>
        \A n \in DOMAIN LeafSeq(MergedTree, <<>>, 1) :
            IsCallable(LeafSeq(MergedTree, <<>>, 1)[n]) =>
                IF CallableAt(LeafSeq(MergedTree, <<>>, 1), n).ok
                THEN /\ Lookup(built, LeafSeq(MergedTree, <<>>, 1)[n].address)
                           = Ok(CallableAt(LeafSeq(MergedTree, <<>>, 1), n).v)
                     /\ ErrorsAt(LeafSeq(MergedTree, <<>>, 1)[n].address) = 0
                ELSE ErrorsAt(LeafSeq(MergedTree, <<>>, 1)[n].address) = 1

\* c = 1, a = user['c'] and b: int = user['c'] / user['a'] give a = 1 and
\* b = 1: the quotient 1.0 is coerced to int, and it is computed from the
\* resolved a, not from its text
QuotientCoerced ==
    /\ pc = "fixed"
    /\ Len(template.keywords) = 3
    /\ template.keywords[1].default = Ref(<<"c">>)
    /\ template.keywords[3].default = Expr("div", <<<<"c">>, <<"a">>>>)
    /\ template.keywords[3].type = "int"
    /\ fr = PyDict(<<Entry("a", PyInt(1)), Entry("c", PyInt(1)),
                     Entry("b", PyInt(1))>>)
    /\ Eval(template.keywords[3].default.s, fr) = Ok(PyFloat(1))
    /\ ~Eval(template.keywords[3].default.s, MergedTree).ok

\* check_predicates has just handed its errors to the porcelain
CheckingPredicates ==
    /\ ran # <<>>
    /\ Last(ran) = "checking predicates"
    /\ raised \in {"", "ParselglossyError"}

\* The predicates the template declares for the keyword at an address
PredicatesAt(address) ==
    LET ps == Lookup(views.predicates, address).v IN
    IF ps = None THEN <<>> ELSE ps.l

\* The errors of the predicates of one keyword that evaluate to false, in
\* the order of the list
RECURSIVE FalseAt(_, _)
FalseAt(ps, address) ==
    IF ps = <<>> THEN <<>>
    ELSE (IF EvalPredicate(Head(ps), address, fr) = Ok(FALSE)
          THEN <<Error(address, NotSatisfied(Head(ps)))>> ELSE <<>>)
         \o FalseAt(Tail(ps), address)

\* ... of the keywords from the n-th on, in the order of the tree
RECURSIVE FalseFrom(_, _)
FalseFrom(leaves, n) ==
    IF n > Len(leaves) THEN <<>>
    ELSE FalseAt(PredicatesAt(leaves[n].address), leaves[n].address)
         \o FalseFrom(leaves, n + 1)

IsNotSatisfied(e) == e.message.m = "not satisfied"

\* C14: check_predicates evaluates every predicate of every keyword that has
\* predicates, in the order of the list, whatever failed before: the errors
\* "Predicate '<text>' not satisfied" are exactly those of the predicates that
\* evaluate to false, one each, at the address of the keyword and quoting the
\* predicate as it was written, keyword after keyword.
PredicatesAccumulate ==
    CheckingPredicates =>
        /\ SelectSeq(errors, IsNotSatisfied)
              = FalseFrom(LeafSeq(fr, <<>>, 1), 1)
        /\ errors # <<>> <=> raised = "ParselglossyError"

\* Two predicates of the keyword at the root fail, and two of the keyword
\* in the section after it
TwoFailuresTwice ==
    /\ CheckingPredicates
    /\ Len(SelectSeq(errors, IsNotSatisfied)) = 4
    /\ Len(errors) = 4
    /\ errors[1].address = <<"n">>
    /\ errors[2].address = <<"n">>
    /\ errors[1] # errors[2]
    /\ errors[3].address = <<"s", "x">>
    /\ errors[4].address = <<"s", "x">>

\* C15: no exception of the evaluation of a predicate leaves
\* check_predicates: each gives an error at the address of the keyword that
\* quotes the predicate as it was written, and the checking goes on.
PredicateFailuresCaught ==
    (ran # <<>> /\ Last(ran) = "checking predicates") =>
        /\ raised \in {"", "ParselglossyError"}
        /\ \A f \in Leaves(fr, <<>>) :
              \A i \in DOMAIN PredicatesAt(f.address) :
                  ~EvalPredicate(PredicatesAt(f.address)[i], f.address, fr).ok =>
                      \E j \in DOMAIN errors :
                          /\ errors[j].address = f.address
                          /\ errors[j].message.m = "in closure"
                          /\ errors[j].message.closure
                                = PredicatesAt(f.address)[i]

\* type(value).__name__
TypeNameOf(value) == value.t

Returned(f) == pc = "returned" /\ call.f = f

\* C16: for a scalar type type_matches is true exactly when the name of the
\* type of the value is the declared type, so an int is no float, a bool no
\* int and an int no bool; for List[T] it is true exactly when the value is
\* a list, not a tuple or another value, and the name of the type of every
\* element is T.
TypeMatchesExactly ==
    (Returned("type_matches") /\ call.expected_type \in allowed_types) =>
        /\ returned.ok
        /\ call.expected_type \in allowed_scalar_types =>
              (returned.v <=> TypeNameOf(call.value) = call.expected_type)
        /\ \A T \in allowed_scalar_types :
              call.expected_type = ListOf(T) =>
                  (returned.v <=>
                      /\ TypeNameOf(call.value) = "list"
                      /\ \A i \in DOMAIN call.value.l :
                            TypeNameOf(call.value.l[i]) = T)
        /\ (TypeNameOf(call.value) = "int"
               /\ call.expected_type \in {"float", "bool"}) => ~returned.v
        /\ (TypeNameOf(call.value) = "bool" /\ call.expected_type = "int")
              => ~returned.v
        /\ TypeNameOf(call.value) = "tuple" => ~returned.v

\* A list of an int and a bool is checked against List[int]
BoolInListOfInt ==
    /\ Returned("type_matches")
    /\ call.value = PyList(<<PyInt(1), PyBool(TRUE)>>)
    /\ call.expected_type = "List[int]"
    /\ returned = Ok(FALSE)

\* A str that spells a complex number, or a list of such
InComplexForm(v, t) ==
    \/ /\ t = "complex"
       /\ v.t = "str" /\ v.s.k = "repr" /\ v.s.of.t = "complex"
    \/ /\ t = "List[complex]"
       /\ v.t = "list" /\ v.l # <<>>
       /\ \A i \in DOMAIN v.l :
             /\ v.l[i].t = "str"
             /\ v.l[i].s.k = "repr"
             /\ v.l[i].s.of.t = "complex"

\* C17: a value declared complex or List[complex] that is the str, or the
\* list of str, spelling complex numbers is accepted by fix_defaults: no
\* error is recorded for it and the tree holds the coerced value, which
\* matches the declared type.
ComplexRetried ==
    (ran # <<>> /\ Last(ran) = "fixing defaults") =>
        /\ raised \in {"", "ParselglossyError"}
        /\ \A f \in Leaves(MergedTree, <<>>) :
              InComplexForm(f.value, DeclaredType(f.address)) =>
                  /\ ErrorsAt(f.address) = 0
                  /\ Lookup(built, f.address).ok
                  /\ type_matches(Lookup(built, f.address).v,
                                  DeclaredType(f.address)) = Ok(TRUE)

\* The missing sentinel of each view
Missing(what) ==
    IF what \in {"type", "docstring"} THEN SpecificationError ELSE None

\* What the view is to hold for a keyword
EntryOf(what, keyword) ==
    CASE what = "type" ->
            IF keyword.type # NoKey THEN Plain(keyword.type) ELSE Missing(what)
      [] what = "default" ->
            IF keyword.default # Absent THEN keyword.default ELSE Missing(what)
      [] what = "predicates" ->
            IF keyword.predicates # Absent THEN keyword.predicates
                                           ELSE Missing(what)
      [] what = "docstring" ->
            CASE keyword.docstring \in {NoKey, "", " "} -> Missing(what)
              [] keyword.docstring = "doc " -> Plain("doc")
              [] OTHER -> Plain(keyword.docstring)

\* view has the shape of node: its keys are the names of the keywords and of
\* the sections of node, a keyword has its entry, a section its view
RECURSIVE SameShape(_, _, _)
SameShape(what, view, node) ==
    /\ isinstance_dict(view)
    /\ KeySet(view)
          = {node.keywords[i].name : i \in 1..Len(node.keywords)}
            \cup {node.sections[i].name : i \in 1..Len(node.sections)}
    /\ \A i \in 1..Len(node.keywords) :
          Get(view, node.keywords[i].name) = EntryOf(what, node.keywords[i])
    /\ \A i \in 1..Len(node.sections) :
          SameShape(what, Get(view, node.sections[i].name), node.sections[i])

\* C18: each of the four views of a template has the shape of the template:
\* at every node its keys are the names of the keywords and sections of the
\* node, a keyword holds its transformed attribute if it has the attribute
\* and the predicate of the view holds, the missing sentinel otherwise, and a
\* section holds its view.
ViewsSameShape ==
    (Returned("view_by") /\ call.what \in possible_views /\ call.d.hasKeywords)
        => /\ returned.ok
           /\ SameShape(call.what, returned.v, call.d)

\* The complex numbers of a value, each where it stands
RECURSIVE ComplexIn(_, _)
ComplexIn(v, address) ==
    CASE v.t = "dict" ->
            UNION {ComplexIn(v.items[i].v, address \o <<v.items[i].k>>) :
                      i \in 1..Len(v.items)}
      [] v.t = "list" ->
            UNION {ComplexIn(v.l[i], address \o <<i>>) : i \in 1..Len(v.l)}
      [] v.t = "complex" -> {[address |-> address, c |-> v]}
      [] OTHER -> {}

\* doc[a1][a2]... with keys of dicts and places of lists
RECURSIVE At(_, _)
At(doc, address) ==
    IF address = <<>> THEN doc
    ELSE IF doc.t = "dict" THEN At(Get(doc, Head(address)), Tail(address))
    ELSE At(doc.l[Head(address)], Tail(address))

\* C19: a tree written with ComplexEncoder and read with the hook as_complex
\* is the same tree again: every complex number is written as the object
\* {"__complex__": [real, imag]} and read as the complex number it was, and
\* every other value and every section is as it was.
RoundTrip ==
    /\ (pc = "dumped" /\ call.f = "json") =>
          /\ returned.ok
          /\ \A x \in ComplexIn(call.fr, <<>>) :
                At(returned.v, x.address)
                   = PyDict(<<Entry("__complex__",
                                    PyList(<<PyFloat(x.c.re),
                                             PyFloat(x.c.im)>>))>>)
    /\ Returned("json") => returned = Ok(call.fr)

\* C20: every error of the merge has as its address the keys that lead from
\* the root to the key it is about: the required keyword that has no value,
\* or the keyword or section of ours that theirs does not hold, at whatever
\* depth.
MergeErrorsAddressed ==
    Merging =>
        \A i \in DOMAIN errors :
            /\ errors[i].address # <<>>
            /\ Last(errors[i].address) = errors[i].message.key
            /\ errors[i].message.m = "is required but has no value" =>
                  Lookup(views.stencil, errors[i].address) = Ok(None)
            /\ errors[i].message.m = "Found unexpected" =>
                  \E l \in MergeLevels :
                      /\ errors[i].address
                            = l.address \o <<errors[i].message.key>>
                      /\ errors[i].message.key \in Unknown(l)

StartDict ==
    rec_fix_defaults(MergedTree, views.types, MergedTree, <<>>).v.start_dict

\* The n-th keyword is a callable that reads the m-th: user[..] of its address
RefersTo(leaves, n, m) ==
    /\ IsCallable(leaves[n])
    /\ leaves[n].value.s.k = "expr"
    /\ leaves[n].value.s.op = "ref"
    /\ leaves[n].value.s.refs[1] = leaves[m].address

\* What the n-th keyword is to hold when it reads the fixed value of the m-th
ReadFixed(leaves, n, m) ==
    Coerced(Lookup(built, leaves[m].address), DeclaredType(leaves[n].address))

\* C22: fix_defaults writes the value it fixed for a keyword into the start
\* dictionary, at the address of the keyword, before it goes on: the start
\* dictionary ends as the merged tree with every fixed value in place, and a
\* keyword whose callable reads a keyword fixed before it gets the fixed
\* value of that keyword (coerced to its own type), so chains of dependent
\* defaults resolve.
DefaultsWrittenBack ==
    FixingDefaults =>
        /\ StartDict
              = ResolvedSoFar(LeafSeq(MergedTree, <<>>, 1),
                              Len(LeafSeq(MergedTree, <<>>, 1)) + 1)
        /\ \A n, m \in DOMAIN LeafSeq(MergedTree, <<>>, 1) :
              (/\ m < n
               /\ RefersTo(LeafSeq(MergedTree, <<>>, 1), n, m)
               /\ ~Failing(built, LeafSeq(MergedTree, <<>>, 1)[m])) =>
                  IF ReadFixed(LeafSeq(MergedTree, <<>>, 1), n, m).ok
                  THEN Lookup(built, LeafSeq(MergedTree, <<>>, 1)[n].address)
                          = Ok(ReadFixed(LeafSeq(MergedTree, <<>>, 1), n, m).v)
                  ELSE ErrorsAt(LeafSeq(MergedTree, <<>>, 1)[n].address) = 1

\* A chain: a = 1, b = user['a'], c = user['b'], met in this order, all 1
ChainResolved ==
    /\ pc = "fixed"
    /\ Len(template.keywords) = 3
    /\ [i \in 1..3 |-> template.keywords[i].name] = <<"a", "b", "c">>
    /\ [i \in 1..3 |-> template.keywords[i].default]
          = <<PyInt(1), Ref(<<"a">>), Ref(<<"b">>)>>
    /\ fr = PyDict(<<Entry("a", PyInt(1)), Entry("b", PyInt(1)),
                     Entry("c", PyInt(1))>>)

\* The n-th keyword is a callable one of whose references is the address of
\* the m-th keyword
Reads(leaves, n, m) ==
    /\ IsCallable(leaves[n])
    /\ leaves[n].value.s.k = "expr"
    /\ \E j \in DOMAIN Operands(leaves[n].value.s) :
          Operands(leaves[n].value.s)[j] = leaves[m].address

\* C23: for a template the check accepted, fix_defaults evaluates a callable
\* only after the keywords it reads are resolved, wherever they stand (among
\* its siblings, in a section, in a later section): a keyword whose own value
\* is a callable is met before every keyword that reads it, so no callable
\* reads the text of another callable.
ResolvedBeforeRead ==
    (ran # <<>> /\ Last(ran) = "fixing defaults") =>
        \A n, m \in DOMAIN LeafSeq(MergedTree, <<>>, 1) :
            (/\ Reads(LeafSeq(MergedTree, <<>>, 1), n, m)
             /\ IsCallable(LeafSeq(MergedTree, <<>>, 1)[m])) => m < n

\* Two trees hold the same keys at every nesting level
RECURSIVE SameKeys(_, _)
SameKeys(a, b) ==
    /\ isinstance_dict(a)
    /\ KeySet(a) = KeySet(b)
    /\ \A k \in KeySet(b) :
          isinstance_dict(Get(b, k)) => SameKeys(Get(a, k), Get(b, k))

\* C24: a value of the merged tree that neither matches its declared type
\* nor is a str holding "user" gives exactly one error "Actual (..) and
\* declared (..) types do not match" at its address and None under its key in
\* the tree fix_defaults builds; so that tree has the keys of the merged tree
\* at every nesting level, with errors too.
MismatchLeavesNull ==
    FixingDefaults =>
        /\ \A f \in Leaves(MergedTree, <<>>) :
              Mismatched(f) =>
                  /\ Count(errors,
                           Error(f.address,
                                 TypesDoNotMatch(f.value,
                                                 DeclaredType(f.address)))) = 1
                  /\ ErrorsAt(f.address) = 1
                  /\ Lookup(built, f.address) = Ok(None)
        /\ SameKeys(built, MergedTree)

\* Keyword k of a node reads its sibling x: a reference of its default is the
\* address of x
DependsOnSibling(address, k, x) ==
    (address \o <<x.name>>) \in References(k.default)

\* k neither depends on a sibling nor is depended upon by one
Unrelated(t, address, k) ==
    \A i \in 1..Len(t.keywords) :
        /\ ~DependsOnSibling(address, k, t.keywords[i])
        /\ ~DependsOnSibling(address, t.keywords[i], k)

\* The keywords of o are those of t, each once and as it was; the unrelated
\* ones stand first, in the order they had; the sections are as they were,
\* and the same holds in each of them
RECURSIVE StablePartition(_, _, _)
StablePartition(t, o, address) ==
    /\ Len(o.keywords) = Len(t.keywords)
    /\ \A k \in SeqToSet(t.keywords) \cup SeqToSet(o.keywords) :
          Count(o.keywords, k) = Count(t.keywords, k)
    /\ SelectSeq(o.keywords, LAMBDA k : Unrelated(t, address, k))
          = SelectSeq(t.keywords, LAMBDA k : Unrelated(t, address, k))
    /\ \A i, j \in 1..Len(o.keywords) :
          (/\ Unrelated(t, address, o.keywords[j])
           /\ ~Unrelated(t, address, o.keywords[i])) => j < i
    /\ Len(o.sections) = Len(t.sections)
    /\ \A i \in 1..Len(t.sections) :
          /\ o.sections[i].name = t.sections[i].name
          /\ o.sections[i].docstring = t.sections[i].docstring
          /\ StablePartition(t.sections[i], o.sections[i],
                             address \o <<t.sections[i].name>>)

\* C25: the template is_template_valid returns has, in every section, the
\* keywords of that section of the template, each once and unchanged, none
\* from another section; and the reordering is a stable partition: the
\* keywords that neither depend on a sibling nor are depended upon by a
\* sibling keep their relative order and stand before the moved ones.
ReorderIsStablePartition ==
    (TemplateCheck /\ raised = "") => StablePartition(template, ordered, <<>>)

\* C26: a template in which the default of a keyword is the reference to the
\* keyword itself is rejected by is_template_valid as every other cycle is:
\* it raises ParselglossyError, whose report lists an error "Keyword depends
\* cyclically on keyword ..." at the address of the keyword; it is neither
\* accepted nor left by another exception.
SelfReferenceRejected ==
    TemplateCheck =>
        \A f \in Fields(template, <<>>) :
            f.keyword.default = Ref(f.address) =>
                /\ raised = "ParselglossyError"
                /\ report = collate_errors("checking the template", errors)
                /\ \E i \in DOMAIN errors :
                      CyclicError(errors[i]) /\ errors[i].address = f.address

\* What a predicate says when value is the keyword itself and every
\* reference the keyword it names
Denotes(p, address, tree) ==
    CASE p.s.op = "lt" -> LessOf(Lookup(tree, address), Ok(PyInt(p.s.rhs)))
      [] p.s.op = "ge" ->
            Negated(LessOf(Lookup(tree, address), Ok(PyInt(p.s.rhs))))
      [] p.s.op = "ltref" -> LessOf(Lookup(tree, address), Lookup(tree, p.s.ref))

\* An error at an address that quotes the predicate p
About(e, address, p) ==
    /\ e.address = address
    /\ \/ e.message = NotSatisfied(p)
       \/ (e.message.m = "in closure" /\ e.message.closure = p)

\* C27: in a predicate every "value" stands for the value of the keyword in
\* the fixed tree, and everything else is evaluated as written: a reference
\* to another keyword stands for that keyword, also when the name of its
\* section or keyword holds the text "value".  So a comparison that is true
\* gives no error and one that is false gives "not satisfied".
PlaceholderDenotesOwnValue ==
    CheckingPredicates =>
        \A f \in Leaves(fr, <<>>) :
            \A i \in DOMAIN PredicatesAt(f.address) :
                PredicatesAt(f.address)[i].s.op \in {"lt", "ge", "ltref"} =>
                    /\ Denotes(PredicatesAt(f.address)[i], f.address, fr)
                          = Ok(TRUE) =>
                          \A j \in DOMAIN errors :
                              ~About(errors[j], f.address,
                                     PredicatesAt(f.address)[i])
                    /\ Denotes(PredicatesAt(f.address)[i], f.address, fr)
                          = Ok(FALSE) =>
                          \E j \in DOMAIN errors :
                              errors[j]
                                = Error(f.address,
                                        NotSatisfied(PredicatesAt(f.address)[i]))

RECURSIVE ShapeOf(_, _)
ShapeOf(tree, view) ==
    /\ isinstance_dict(tree)
    /\ KeySet(tree) = KeySet(view)
    /\ \A k \in KeySet(view) \cap KeySet(tree) :
          IF isinstance_dict(Get(view, k)) THEN ShapeOf(Get(tree, k), Get(view, k))
          ELSE ~isinstance_dict(Get(tree, k))

\* C29: whatever the user input, the merge returns a tree of the shape of
\* the view by default: at every nesting level it holds exactly the keys of
\* the view, and a dict under a key exactly where the view holds a section,
\* also when the input holds a dict where the template declares a keyword or
\* a value that is no dict where it declares a section.
MergedHasShapeOfView ==
    (ran # <<>> /\ Last(ran) = "merging") =>
        /\ raised \in {"", "ParselglossyError"}
        /\ ShapeOf(built, views.stencil)

\* C30: the fixer of List[T] applies the constructor of T to each element:
\* a value that matches List[T] is fixed to a value that matches List[T]
\* again and has the same elements.
ListFixerKeepsType ==
    (/\ Returned("type_fixers")
     /\ call.t \in allowed_list_types
     /\ type_matches(call.x, call.t) = Ok(TRUE)) =>
        /\ returned = MapConstructor(ElementType(call.t), call.x)
        /\ returned.ok
        /\ type_matches(returned.v, call.t) = Ok(TRUE)
        /\ returned.v = call.x

====
